---- MODULE Spec2Model ----
(***************************************************************************)
(* A model of the numeric core of the Erlang-C capacity planner            *)
(* (src/src/utils/erlangC.js): the Erlang-C probability, its derived       *)
(* metrics and the binary search of findMinWorkers.                        *)
(*                                                                         *)
(* JavaScript numbers are IEEE-754 doubles.  The model keeps a number as   *)
(* an exact fraction n/d in lowest terms, or as one of the special values  *)
(* Infinity, -Infinity and NaN, with the IEEE rules for the special values *)
(* (Infinity/Infinity = NaN, x/Infinity = 0, every comparison with NaN is  *)
(* false).  A finite result whose magnitude exceeds MAX_VALUE overflows to *)
(* Infinity, as a double does; MAX_VALUE stands for Number.MAX_VALUE       *)
(* (about 1.8e308) and is scaled down so that the overflow of factorial    *)
(* and of Math.pow happens at worker counts the model explores (the code   *)
(* overflows from N = 171 for factorial, and as soon as A^k > 1.8e308 for  *)
(* Math.pow).  Rounding of finite results and underflow are not modelled:  *)
(* finite arithmetic is exact.                                             *)
(***************************************************************************)
EXTENDS Integers, Sequences, FiniteSets, TLC

(***************************************************************************)
(* Bounds of the model.                                                    *)
(***************************************************************************)
\* The largest finite magnitude of a number (Number.MAX_VALUE, scaled).
MAX_VALUE == 10000
\* arrivalRate ranges over -1 .. MaxArrivalRate (requests per second).
MaxArrivalRate == 6
\* serviceTime ranges over 0, 1/2, ..., MaxServiceHalves/2 (seconds).
MaxServiceHalves == 2
\* The worker count N of a direct call ranges over -1 .. MaxWorkers.
MaxWorkers == 8

\* The iterations of the binary search that are counted.
MaxIterations == 8

(***************************************************************************)
(* Numbers.                                                                *)
(***************************************************************************)
Abs(x) == IF x < 0 THEN -x ELSE x

Sign(x) == IF x < 0 THEN -1 ELSE IF x > 0 THEN 1 ELSE 0

RECURSIVE GCD(_, _)
GCD(a, b) == IF b = 0 THEN a ELSE GCD(b, a % b)

Infinity == [n |-> 1, d |-> 0]

NegInfinity == [n |-> -1, d |-> 0]

NaN == [n |-> 0, d |-> 0]

isNaN(x) == x.d = 0 /\ x.n = 0

isFinite(x) == x.d # 0

\* The number n/d (d > 0) as a double: lowest terms, overflow to +-Infinity.
Num(n, d) ==
  LET g == GCD(Abs(n), d)
      nn == n \div g
      dd == d \div g
      q == Abs(nn) \div dd
  IN  IF q > MAX_VALUE \/ (q = MAX_VALUE /\ Abs(nn) % dd # 0)
      THEN (IF nn > 0 THEN Infinity ELSE NegInfinity)
      ELSE [n |-> nn, d |-> dd]

\* An integer as a number.
Int2Num(i) == Num(i, 1)

Zero == [n |-> 0, d |-> 1]

One == [n |-> 1, d |-> 1]

Hundred == [n |-> 100, d |-> 1]

\* x + y
FAdd(x, y) ==
  IF isNaN(x) \/ isNaN(y) THEN NaN
  ELSE IF ~isFinite(x) /\ ~isFinite(y) THEN (IF x.n = y.n THEN x ELSE NaN)
  ELSE IF ~isFinite(x) THEN x
  ELSE IF ~isFinite(y) THEN y
  ELSE LET g == GCD(x.d, y.d)
       IN  Num(x.n * (y.d \div g) + y.n * (x.d \div g), (x.d \div g) * y.d)

FNeg(x) == [n |-> -x.n, d |-> x.d]

\* x - y
FSub(x, y) == FAdd(x, FNeg(y))

\* x * y
FMul(x, y) ==
  IF isNaN(x) \/ isNaN(y) THEN NaN
  ELSE IF ~isFinite(x) \/ ~isFinite(y)
       THEN (IF x.n = 0 \/ y.n = 0 THEN NaN
             ELSE IF Sign(x.n) = Sign(y.n) THEN Infinity ELSE NegInfinity)
  ELSE LET g1 == GCD(Abs(x.n), y.d)
           g2 == GCD(Abs(y.n), x.d)
       IN  Num((x.n \div g1) * (y.n \div g2), (x.d \div g2) * (y.d \div g1))

\* x / y (the sign of a zero is not modelled: x/0 has the sign of x)
FDiv(x, y) ==
  IF isNaN(x) \/ isNaN(y) THEN NaN
  ELSE IF ~isFinite(x) /\ ~isFinite(y) THEN NaN
  ELSE IF ~isFinite(x) THEN (IF Sign(x.n) * Sign(y.n) < 0 THEN NegInfinity ELSE x)
  ELSE IF ~isFinite(y) THEN Zero
  ELSE IF y.n = 0 THEN (IF x.n = 0 THEN NaN
                        ELSE IF x.n > 0 THEN Infinity ELSE NegInfinity)
  ELSE LET g1 == GCD(Abs(x.n), Abs(y.n))
           g2 == GCD(x.d, y.d)
           s == Sign(y.n)
       IN  Num(s * (x.n \div g1) * (y.d \div g2), (x.d \div g2) * (Abs(y.n) \div g1))

\* a/b <= c/d for b, d > 0, by the integer parts and then the remainders
\* (no product is formed, so that the comparison stays within the integers
\* of the checker).
RECURSIVE FracLe(_, _, _, _)
FracLe(a, b, c, d) ==
  IF a \div b # c \div d THEN a \div b < c \div d
  ELSE IF a % b = 0 THEN TRUE
  ELSE IF c % d = 0 THEN FALSE
  ELSE FracLe(d, c % d, b, a % b)

\* x <= y
FLe(x, y) ==
  IF isNaN(x) \/ isNaN(y) THEN FALSE
  ELSE IF ~isFinite(x) THEN (x.n < 0 \/ x = y)
  ELSE IF ~isFinite(y) THEN y.n > 0
  ELSE FracLe(x.n, x.d, y.n, y.d)

\* x < y
FLt(x, y) == FLe(x, y) /\ x # y

\* x >= y
FGe(x, y) == FLe(y, x)

\* Math.min(x, y), Math.max(x, y)
Math_min(x, y) == IF isNaN(x) \/ isNaN(y) THEN NaN ELSE IF FLe(x, y) THEN x ELSE y

Math_max(x, y) == IF isNaN(x) \/ isNaN(y) THEN NaN ELSE IF FLe(x, y) THEN y ELSE x

\* Math.ceil and Math.floor of a finite number, as an integer.
Math_ceil(x) == -((-x.n) \div x.d)

Math_floor(x) == x.n \div x.d

\* Math.ceil and Math.floor as numbers: an infinity and NaN are their own
\* ceiling and floor.
Math_ceilNum(x) == IF isFinite(x) THEN Int2Num(Math_ceil(x)) ELSE x

Math_floorNum(x) == IF isFinite(x) THEN Int2Num(Math_floor(x)) ELSE x

\* Math.pow(x, k) for an integer k >= 0: p holds [value |-> x^i, i |-> i].
RECURSIVE Math_powLoop(_, _, _)
Math_powLoop(p, x, k) ==
  IF p.i < k
  THEN Math_powLoop([value |-> FMul(p.value, x), i |-> p.i + 1], x, k)
  ELSE p.value

Math_pow(x, k) == Math_powLoop([value |-> One, i |-> 0], x, k)

(***************************************************************************)
(* ErlangEngine: src/src/utils/erlangC.js.  N is an integer worker count,  *)
(* A and serviceTime are numbers.                                          *)
(***************************************************************************)
\* for (let i = 2; i <= n; i++) result *= i;
\* v holds the loop's variables [result, i].
RECURSIVE factorialLoop(_, _)
factorialLoop(v, n) ==
  IF v.i <= n
  THEN factorialLoop([result |-> FMul(v.result, Int2Num(v.i)), i |-> v.i + 1], n)
  ELSE v.result

factorial(n) ==
  IF n = 0 \/ n = 1 THEN One ELSE factorialLoop([result |-> One, i |-> 2], n)

\* for (let k = 0; k < N; k++) sum += Math.pow(A, k) / factorial(k);
\* v holds the loop's variables [sum, k].
RECURSIVE erlangCSum(_, _, _)
erlangCSum(v, N, A) ==
  IF v.k < N
  THEN erlangCSum([sum |-> FAdd(v.sum, FDiv(Math_pow(A, v.k), factorial(v.k))),
                   k |-> v.k + 1], N, A)
  ELSE v.sum

\* The body of erlangC past its two guards: the sum, the numerator A^N/N!,
\* the denominator and their quotient.
erlangCFormulaValue(N, A) ==
  LET sum == erlangCSum([sum |-> Zero, k |-> 0], N, A)
      numerator == FDiv(Math_pow(A, N), factorial(N))
      denominator ==
        FAdd(numerator, FMul(FSub(One, FDiv(A, Int2Num(N))), sum))
  IN  FDiv(numerator, denominator)

\* A faulty variant of erlangC, which the properties must tell from it: the
\* overload guard (A >= N) is missing.
erlangC_NoOverloadGuard(N, A) ==
  IF N <= 0 \/ FLt(A, Zero) THEN Zero ELSE erlangCFormulaValue(N, A)

\* A faulty variant of erlangC, which the properties must tell from it: the
\* overload guard is tested before the degenerate one.
erlangC_OverloadGuardFirst(N, A) ==
  IF FGe(A, Int2Num(N)) THEN One
  ELSE IF N <= 0 \/ FLt(A, Zero) THEN Zero
  ELSE erlangCFormulaValue(N, A)

erlangC(N, A) ==
  IF N <= 0 \/ FLt(A, Zero) THEN Zero
  ELSE IF FGe(A, Int2Num(N)) THEN One
  ELSE erlangCFormulaValue(N, A)

averageWaitingTime(N, A, serviceTime) ==
  IF FLe(Int2Num(N), A) THEN Infinity
  ELSE LET P == erlangC(N, A)
       IN  FDiv(FMul(P, serviceTime), FSub(Int2Num(N), A))

\* A faulty variant of averageQueueLength, which the properties must tell
\* from it: the factor A is missing (the waiting-time expression without the
\* service time).
averageQueueLength_NoTraffic(N, A) ==
  IF FLe(Int2Num(N), A) THEN Infinity
  ELSE LET P == erlangC(N, A)
       IN  FDiv(P, FSub(Int2Num(N), A))

averageQueueLength(N, A) ==
  IF FLe(Int2Num(N), A) THEN Infinity
  ELSE LET P == erlangC(N, A)
       IN  FDiv(FMul(A, P), FSub(Int2Num(N), A))

calculateTrafficIntensity(arrivalRate, serviceTime) == FMul(arrivalRate, serviceTime)

\* A faulty variant of calculateUtilization, which the properties must tell
\* from it: the cap Math.min(100, .) is missing.
calculateUtilization_NoCap(N, A) ==
  IF N = 0 THEN Zero ELSE FMul(FDiv(A, Int2Num(N)), Hundred)

calculateUtilization(N, A) ==
  IF N = 0 THEN Zero ELSE Math_min(Hundred, FMul(FDiv(A, Int2Num(N)), Hundred))

(***************************************************************************)
(* WorkerSolver: findMinWorkers, one step of the binary search per action. *)
(***************************************************************************)
Max(a, b) == IF a >= b THEN a ELSE b

\* const A = ...; let N = Math.ceil(A) + 1; let minN = Math.ceil(A);
\* let maxN = Math.ceil(A * 3);
findMinWorkersEnter(arrivalRate, serviceTime, maxWaitTime) ==
  LET A == calculateTrafficIntensity(arrivalRate, serviceTime)
  IN  [A |-> A,
       N |-> FAdd(Math_ceilNum(A), One),
       minN |-> Math_ceilNum(A),
       maxN |-> Math_ceilNum(FMul(A, Int2Num(3))),
       maxWaitTime |-> maxWaitTime,
       iterations |-> 0]

\* averageWaitingTime(midN, A, serviceTime) for the midpoint of the search,
\* a number: the midpoint is Infinity only when A is, and then N <= A holds
\* and the function returns Infinity at once.
midWaitingTime(midN, A, serviceTime) ==
  IF isFinite(midN) THEN averageWaitingTime(midN.n, A, serviceTime) ELSE Infinity

\* One iteration of while (minN <= maxN) { ... }.  The count of iterations
\* is not part of the code; it stops at MaxIterations.
findMinWorkersIterate(f, serviceTime) ==
  LET midN == Math_floorNum(FDiv(FAdd(f.minN, f.maxN), Int2Num(2)))
      waitTime == midWaitingTime(midN, f.A, serviceTime)
      counted == IF f.iterations < MaxIterations THEN f.iterations + 1
                 ELSE f.iterations
  IN  IF FLe(waitTime, f.maxWaitTime)
      THEN [f EXCEPT !.N = midN, !.maxN = FSub(midN, One), !.iterations = counted]
      ELSE [f EXCEPT !.minN = FAdd(midN, One), !.iterations = counted]

\* A faulty variant of findMinWorkersReturn, which the properties must tell
\* from it: the floor Math.max(Math.ceil(A) + 1, .) is missing.
findMinWorkersReturn_NoFloor(A, N) == N

\* return Math.max(Math.ceil(A) + 1, N);
findMinWorkersReturn(A, N) == Math_max(FAdd(Math_ceilNum(A), One), N)

\* while (minN <= maxN) { ... }, run to its exit.
RECURSIVE findMinWorkersLoop(_, _)
findMinWorkersLoop(f, serviceTime) ==
  IF FLe(f.minN, f.maxN)
  THEN findMinWorkersLoop(findMinWorkersIterate(f, serviceTime), serviceTime)
  ELSE f

\* A whole call of findMinWorkers, for inputs on which it returns.
findMinWorkers(arrivalRate, serviceTime, maxWaitTime) ==
  LET f == findMinWorkersLoop(
             findMinWorkersEnter(arrivalRate, serviceTime, maxWaitTime), serviceTime)
  IN  findMinWorkersReturn(f.A, f.N)

(***************************************************************************)
(* FleetOptimizer, the optimization chain:                                 *)
(* src/src/components/FleetVisualizations.js.  The properties p of the     *)
(* component are a record; workersPerServer and numServers are integers,   *)
(* optMinWorkers and optMaxWorkers are <<>> for null and <<w>> for a       *)
(* value, the other fields are numbers.  All thresholds and costs the      *)
(* model supplies are below MAX_VALUE, so that a wait time the scaled      *)
(* overflow turns into Infinity is one the SLA test would reject too.      *)
(***************************************************************************)
Min(a, b) == IF a <= b THEN a ELSE b

Thousand == [n |-> 1000, d |-> 1]

\* const isValid = ...; isFinite of the integer fields is true.
isValid(p) ==
  /\ FLt(Zero, p.totalArrivalRate)
  /\ FLt(Zero, p.serviceTime)
  /\ p.numServers > 0
  /\ p.workersPerServer > 0
  /\ FLt(Zero, p.maxWaitTimeMs)
  /\ FGe(p.maxProbabilityDelay, Zero)
  /\ isFinite(p.totalArrivalRate)
  /\ isFinite(p.serviceTime)

\* const minWorkers = optMinWorkers !== null ? ... : ...;
chainMinWorkers(p) ==
  IF p.optMinWorkers # <<>> THEN Max(1, p.optMinWorkers[1])
  ELSE Max(1, p.workersPerServer - 10)

\* const maxWorkers = optMaxWorkers !== null ? ... : ...;
chainMaxWorkers(p, totalTrafficIntensity) ==
  IF p.optMaxWorkers # <<>>
  THEN Min(1000, Max(chainMinWorkers(p), p.optMaxWorkers[1]))
  ELSE Min(200, Max(p.workersPerServer + 20,
                    Math_ceil(FDiv(totalTrafficIntensity, Int2Num(2)))))

\* const stepSize = range > 50 ? Math.max(1, Math.floor(range / 50)) : 1;
chainStepSize(range) == IF range > 50 THEN Max(1, range \div 50) ELSE 1

\* A faulty variant of workersToTest, which the properties must tell from
\* it: only the sampled worker counts are tested.
workersToTest_SampledOnly(p, totalTrafficIntensity) ==
  LET minWorkers == chainMinWorkers(p)
      maxWorkers == chainMaxWorkers(p, totalTrafficIntensity)
      stepSize == chainStepSize(maxWorkers - minWorkers)
  IN  {minWorkers + i * stepSize : i \in 0 .. ((maxWorkers - minWorkers) \div stepSize)}

\* The set workersToTest: the current workersPerServer, the sampled worker
\* counts and the two ends of the range.
workersToTest(p, totalTrafficIntensity) ==
  LET minWorkers == chainMinWorkers(p)
      maxWorkers == chainMaxWorkers(p, totalTrafficIntensity)
      stepSize == chainStepSize(maxWorkers - minWorkers)
  IN  {p.workersPerServer}
        \cup {minWorkers + i * stepSize : i \in 0 .. ((maxWorkers - minWorkers) \div stepSize)}
        \cup {minWorkers, maxWorkers}

\* Array.from(workersToTest).sort((a, b) => a - b)
RECURSIVE sortedWorkers(_)
sortedWorkers(S) ==
  IF S = {} THEN <<>>
  ELSE LET least == CHOOSE w \in S : \A x \in S : w <= x
       IN  <<least>> \o sortedWorkers(S \ {least})

\* A faulty variant of chainScanStart, which the properties must tell from
\* it: the sweep starts below 95.
chainScanStart_Below95 ==
  [targetUtil |-> 93,
   maxFeasibleUtilization |-> Zero,
   minServersAtMaxUtil |-> Infinity,
   waitTimeAtMaxUtil |-> Infinity,
   stopped |-> FALSE]

\* The variables of the loop over the target utilizations, as it starts.
chainScanStart ==
  [targetUtil |-> 95,
   maxFeasibleUtilization |-> Zero,
   minServersAtMaxUtil |-> Infinity,
   waitTimeAtMaxUtil |-> Infinity,
   stopped |-> FALSE]

\* A faulty variant of chainMeetsSLA, which the properties must tell from
\* it: the bound on the delay probability is not tested.
chainMeetsSLA_WaitOnly(waitTime, probabilityDelay, p) ==
  FLe(waitTime, p.maxWaitTimeMs)

\* waitTime <= maxWaitTimeMs && probabilityDelay <= maxProbabilityDelay
chainMeetsSLA(waitTime, probabilityDelay, p) ==
  FLe(waitTime, p.maxWaitTimeMs) /\ FLe(probabilityDelay, p.maxProbabilityDelay)

\* The body of for (let targetUtil = 95; targetUtil >= 30; targetUtil -= 2):
\* continue decrements targetUtil, break sets stopped.
chainTryUtilization(v, p, totalTrafficIntensity, workers) ==
  LET requiredServers ==
        Math_ceilNum(FDiv(FMul(totalTrafficIntensity, Hundred),
                          Int2Num(v.targetUtil * workers)))
      arrivalRatePerServer == FDiv(p.totalArrivalRate, requiredServers)
      trafficIntensityPerServer ==
        calculateTrafficIntensity(arrivalRatePerServer, p.serviceTime)
      actualUtilization == calculateUtilization(workers, trafficIntensityPerServer)
      waitTime ==
        FMul(averageWaitingTime(workers, trafficIntensityPerServer, p.serviceTime),
             Thousand)
      probabilityDelay == FMul(erlangC(workers, trafficIntensityPerServer), Hundred)
      continue == [v EXCEPT !.targetUtil = @ - 2]
  IN  IF FLt(requiredServers, One) \/ FLt(Int2Num(10000), requiredServers)
      THEN continue
      ELSE IF FGe(trafficIntensityPerServer, Int2Num(workers)) THEN continue
      ELSE IF ~isFinite(waitTime) \/ ~isFinite(probabilityDelay)
                \/ ~isFinite(actualUtilization)
      THEN continue
      ELSE IF chainMeetsSLA(waitTime, probabilityDelay, p)
      THEN IF FLt(v.maxFeasibleUtilization, actualUtilization)
           THEN [v EXCEPT !.maxFeasibleUtilization = actualUtilization,
                          !.minServersAtMaxUtil = requiredServers,
                          !.waitTimeAtMaxUtil = waitTime,
                          !.stopped = TRUE]
           ELSE [v EXCEPT !.stopped = TRUE]
      ELSE continue

RECURSIVE chainScan(_, _, _, _)
chainScan(v, p, totalTrafficIntensity, workers) ==
  IF ~v.stopped /\ v.targetUtil >= 30
  THEN chainScan(chainTryUtilization(v, p, totalTrafficIntensity, workers),
                 p, totalTrafficIntensity, workers)
  ELSE v

\* data.push({ workersPerServer: workers, ... })
chainRecord(v, p, workers) ==
  [workersPerServer |-> workers,
   maxFeasibleUtilization |-> v.maxFeasibleUtilization,
   minServersRequired |-> v.minServersAtMaxUtil,
   waitTimeAtOptimal |-> v.waitTimeAtMaxUtil,
   totalWorkers |-> FMul(Int2Num(workers), v.minServersAtMaxUtil),
   totalCost |->
     FAdd(FMul(FMul(p.costPerWorker, v.minServersAtMaxUtil), Int2Num(workers)),
          FMul(p.perServerOverhead, v.minServersAtMaxUtil))]

\* for (const workers of sortedWorkers) { ... }: c holds [i, data].
RECURSIVE chainLoop(_, _, _, _)
chainLoop(c, sorted, p, totalTrafficIntensity) ==
  IF c.i <= Len(sorted)
  THEN LET v == chainScan(chainScanStart, p, totalTrafficIntensity, sorted[c.i])
       IN  chainLoop(
             [i |-> c.i + 1,
              data |-> IF FLt(Zero, v.maxFeasibleUtilization)
                            /\ FLt(v.minServersAtMaxUtil, Infinity)
                       THEN Append(c.data, chainRecord(v, p, sorted[c.i]))
                       ELSE c.data],
             sorted, p, totalTrafficIntensity)
  ELSE c.data

\* const optimizationChainData = useMemo(() => { ... })
optimizationChainData(p) ==
  IF ~isValid(p) THEN <<>>
  ELSE LET totalTrafficIntensity ==
             calculateTrafficIntensity(p.totalArrivalRate, p.serviceTime)
       IN  chainLoop([i |-> 1, data |-> <<>>],
                     sortedWorkers(workersToTest(p, totalTrafficIntensity)),
                     p, totalTrafficIntensity)

\* optimizationChainData.find(d => d.workersPerServer === workersPerServer):
\* the first such record as <<r>>, undefined as <<>>.
RECURSIVE chainFind(_, _, _)
chainFind(data, workers, i) ==
  IF i > Len(data) THEN <<>>
  ELSE IF data[i].workersPerServer = workers THEN <<data[i]>>
  ELSE chainFind(data, workers, i + 1)

\* const currentAnalysis = useMemo(() => { ... }): null is <<>>.
currentAnalysis(p, chain) ==
  IF ~isValid(p) THEN <<>>
  ELSE LET arrivalRatePerServer == FDiv(p.totalArrivalRate, Int2Num(p.numServers))
           trafficIntensityPerServer ==
             calculateTrafficIntensity(arrivalRatePerServer, p.serviceTime)
           utilization ==
             calculateUtilization(p.workersPerServer, trafficIntensityPerServer)
           waitTime ==
             FMul(averageWaitingTime(p.workersPerServer, trafficIntensityPerServer,
                                     p.serviceTime),
                  Thousand)
           probabilityDelay ==
             FMul(erlangC(p.workersPerServer, trafficIntensityPerServer), Hundred)
       IN  IF FGe(trafficIntensityPerServer, Int2Num(p.workersPerServer)) THEN <<>>
           ELSE IF ~isFinite(waitTime) \/ ~isFinite(probabilityDelay)
                     \/ ~isFinite(utilization)
           THEN <<>>
           ELSE <<[workersPerServer |-> p.workersPerServer,
                   numServers |-> p.numServers,
                   utilization |-> utilization,
                   waitTime |-> waitTime,
                   probabilityDelay |-> probabilityDelay,
                   meetsSLA |-> FLe(waitTime, p.maxWaitTimeMs)
                                  /\ FLe(probabilityDelay, p.maxProbabilityDelay),
                   optimalForWorkers |-> chainFind(chain, p.workersPerServer, 1),
                   totalCost |->
                     FAdd(FMul(FMul(p.costPerWorker, Int2Num(p.numServers)),
                               Int2Num(p.workersPerServer)),
                          FMul(p.perServerOverhead, Int2Num(p.numServers)))]>>

\* currentAnalysis.optimalForWorkers = { workersPerServer: workers, ... }
fallbackRecord(v, p, workers) ==
  [workersPerServer |-> workers,
   maxFeasibleUtilization |-> v.maxFeasibleUtilization,
   minServersRequired |-> v.minServersAtMaxUtil,
   waitTimeAtOptimal |-> v.waitTimeAtMaxUtil,
   totalCost |->
     FAdd(FMul(FMul(p.costPerWorker, v.minServersAtMaxUtil), Int2Num(workers)),
          FMul(p.perServerOverhead, v.minServersAtMaxUtil))]

\* The search for the current worker count alone, made when the chain is
\* empty and the current configuration meets the SLA: currentAnalysis as the
\* charts see it.
fallbackSearch(p, hasOptimizationData, analysis) ==
  IF ~hasOptimizationData /\ analysis # <<>> /\ analysis[1].meetsSLA
  THEN LET workers == p.workersPerServer  \* currentAnalysis.workersPerServer
           v == chainScan(chainScanStart, p,
                          calculateTrafficIntensity(p.totalArrivalRate,
                                                    p.serviceTime),
                          workers)
       IN  IF FLt(Zero, v.maxFeasibleUtilization)
                /\ FLt(v.minServersAtMaxUtil, Infinity)
           THEN <<[analysis[1] EXCEPT
                     !.optimalForWorkers = <<fallbackRecord(v, p, workers)>>]>>
           ELSE analysis
  ELSE analysis

(***************************************************************************)
(* FleetOptimizer, the scorer: ServerOptimizer (src/unnamed/part_002).     *)
(* The inputs q are arrivalRate, serviceTime and maxWaitTimeMs (numbers),  *)
(* the goal, the two costs (numbers) and the integers maxServers and       *)
(* maxWorkersPerServer.  The component keeps both costs >= 1 and           *)
(* maxWorkersPerServer <= 50, below the worker counts at which factorial   *)
(* and Math.pow overflow; the model keeps its worker counts below its      *)
(* scaled overflow likewise.                                               *)
(***************************************************************************)
\* configs.push({ ... }) for one pair (numServers, workersPerServer).
scorerConfig(q, numServers, workersPerServer, serverTrafficIntensity) ==
  LET utilization == calculateUtilization(workersPerServer, serverTrafficIntensity)
      waitTime ==
        averageWaitingTime(workersPerServer, serverTrafficIntensity, q.serviceTime)
      probabilityDelay == erlangC(workersPerServer, serverTrafficIntensity)
      totalWorkers == numServers * workersPerServer
      totalCost == FAdd(FMul(q.costPerServer, Int2Num(numServers)),
                        FMul(q.costPerWorker, Int2Num(totalWorkers)))
  IN  [numServers |-> numServers,
       workersPerServer |-> workersPerServer,
       totalWorkers |-> totalWorkers,
       totalCost |-> totalCost,
       avgUtilization |-> utilization,
       waitTime |-> FMul(waitTime, Thousand),
       probabilityDelay |-> FMul(probabilityDelay, Hundred),
       serverTrafficIntensity |-> serverTrafficIntensity,
       efficiency |-> FDiv(utilization, FDiv(totalCost, Hundred)),
       score |-> Zero]

\* if (waitTime > maxWaitTimeSeconds) continue;
scorerSkips(q, workersPerServer, serverTrafficIntensity) ==
  FLt(FDiv(q.maxWaitTimeMs, Thousand),
      averageWaitingTime(workersPerServer, serverTrafficIntensity, q.serviceTime))

\* for (let workersPerServer = minWorkersPerServer; ...): c holds
\* [workersPerServer, configs].
RECURSIVE scorerWorkersLoop(_, _, _, _)
scorerWorkersLoop(c, q, numServers, serverTrafficIntensity) ==
  IF c.workersPerServer <= q.maxWorkersPerServer
  THEN scorerWorkersLoop(
         [workersPerServer |-> c.workersPerServer + 1,
          configs |->
            IF scorerSkips(q, c.workersPerServer, serverTrafficIntensity)
            THEN c.configs
            ELSE Append(c.configs,
                        scorerConfig(q, numServers, c.workersPerServer,
                                     serverTrafficIntensity))],
         q, numServers, serverTrafficIntensity)
  ELSE c.configs

\* for (let numServers = 1; numServers <= maxServers; numServers++): c holds
\* [numServers, configs].
RECURSIVE scorerServersLoop(_, _)
scorerServersLoop(c, q) ==
  IF c.numServers <= q.maxServers
  THEN LET requestsPerServer == FDiv(q.arrivalRate, Int2Num(c.numServers))
           serverTrafficIntensity ==
             calculateTrafficIntensity(requestsPerServer, q.serviceTime)
           minWorkersPerServer == Max(1, Math_ceil(serverTrafficIntensity) + 1)
       IN  scorerServersLoop(
             [numServers |-> c.numServers + 1,
              configs |->
                scorerWorkersLoop([workersPerServer |-> minWorkersPerServer,
                                   configs |-> c.configs],
                                  q, c.numServers, serverTrafficIntensity)],
             q)
  ELSE c.configs

\* const configurations = useMemo(() => { ... })
configurations(q) == scorerServersLoop([numServers |-> 1, configs |-> <<>>], q)

\* Math.max(...values): -Infinity for no value, NaN as soon as one is NaN.
RECURSIVE Math_maxOf(_, _)
Math_maxOf(values, n) ==
  IF n = 0 THEN NegInfinity ELSE Math_max(Math_maxOf(values, n - 1), values[n])

\* A faulty variant of scoreOf, which the properties must tell from it: the
\* weights of the cost objective are exchanged.
scoreOf_WeightsExchanged(config, goal, maxCost, maxEfficiency, maxWaitTimeMs) ==
  LET costScore == FSub(One, FDiv(config.totalCost, maxCost))
      waitTimeScore == FSub(One, FDiv(config.waitTime, maxWaitTimeMs))
      utilizationScore == FDiv(config.avgUtilization, Hundred)
  IN  IF goal = "cost"
      THEN FAdd(FMul(costScore, Num(3, 10)), FMul(utilizationScore, Num(7, 10)))
      ELSE IF goal = "performance"
      THEN FAdd(FMul(waitTimeScore, Num(6, 10)), FMul(utilizationScore, Num(4, 10)))
      ELSE IF goal = "balanced"
      THEN FAdd(FAdd(FMul(costScore, Num(4, 10)), FMul(waitTimeScore, Num(3, 10))),
                FMul(utilizationScore, Num(3, 10)))
      ELSE IF goal = "efficiency" THEN FDiv(config.efficiency, maxEfficiency)
      ELSE Zero

\* A faulty variant of scoreOf, which the properties must tell from it: the
\* efficiency objective divides the utilization, not the efficiency.
scoreOf_UtilizationOverEfficiency(config, goal, maxCost, maxEfficiency, maxWaitTimeMs) ==
  LET costScore == FSub(One, FDiv(config.totalCost, maxCost))
      waitTimeScore == FSub(One, FDiv(config.waitTime, maxWaitTimeMs))
      utilizationScore == FDiv(config.avgUtilization, Hundred)
  IN  IF goal = "cost"
      THEN FAdd(FMul(costScore, Num(7, 10)), FMul(utilizationScore, Num(3, 10)))
      ELSE IF goal = "performance"
      THEN FAdd(FMul(waitTimeScore, Num(6, 10)), FMul(utilizationScore, Num(4, 10)))
      ELSE IF goal = "balanced"
      THEN FAdd(FAdd(FMul(costScore, Num(4, 10)), FMul(waitTimeScore, Num(3, 10))),
                FMul(utilizationScore, Num(3, 10)))
      ELSE IF goal = "efficiency" THEN FDiv(config.avgUtilization, maxEfficiency)
      ELSE Zero

\* let score = 0; if (optimizationGoal === 'cost') { ... } else if ...
scoreOf(config, goal, maxCost, maxEfficiency, maxWaitTimeMs) ==
  LET costScore == FSub(One, FDiv(config.totalCost, maxCost))
      waitTimeScore == FSub(One, FDiv(config.waitTime, maxWaitTimeMs))
      utilizationScore == FDiv(config.avgUtilization, Hundred)
  IN  IF goal = "cost"
      THEN FAdd(FMul(costScore, Num(7, 10)), FMul(utilizationScore, Num(3, 10)))
      ELSE IF goal = "performance"
      THEN FAdd(FMul(waitTimeScore, Num(6, 10)), FMul(utilizationScore, Num(4, 10)))
      ELSE IF goal = "balanced"
      THEN FAdd(FAdd(FMul(costScore, Num(4, 10)), FMul(waitTimeScore, Num(3, 10))),
                FMul(utilizationScore, Num(3, 10)))
      ELSE IF goal = "efficiency" THEN FDiv(config.efficiency, maxEfficiency)
      ELSE Zero

\* A faulty variant of sortByScore, which the properties must tell from it:
\* the list is left in the order of generation.
sortByScore_Unsorted(list) == list

\* One step of the stable sort: x, which follows the elements of sorted in
\* the list, goes before the first element the comparator puts after it
\* (b.score - a.score > 0, i.e. a lower score) and after all others.
sortInsert(sorted, x) ==
  LET lower == {i \in 1 .. Len(sorted) : FLt(sorted[i].score, x.score)}
      at == IF lower = {} THEN Len(sorted) + 1
            ELSE CHOOSE i \in lower : \A j \in lower : i <= j
  IN  SubSeq(sorted, 1, at - 1) \o <<x>> \o SubSeq(sorted, at, Len(sorted))

RECURSIVE sortLoop(_, _)
sortLoop(c, list) ==
  IF c.i <= Len(list)
  THEN sortLoop([i |-> c.i + 1, sorted |-> sortInsert(c.sorted, list[c.i])], list)
  ELSE c.sorted

\* .sort((a, b) => b.score - a.score): a stable sort, highest score first.
sortByScore(list) == sortLoop([i |-> 1, sorted |-> <<>>], list)

\* const scoredConfigurations = useMemo(() => { ... })
scoredConfigurations(configs, goal, maxWaitTimeMs) ==
  IF Len(configs) = 0 THEN <<>>
  ELSE LET maxCost ==
             Math_maxOf([i \in 1 .. Len(configs) |-> configs[i].totalCost],
                        Len(configs))
           maxEfficiency ==
             Math_maxOf([i \in 1 .. Len(configs) |-> configs[i].efficiency],
                        Len(configs))
       IN  sortByScore(
             [i \in 1 .. Len(configs) |->
                [configs[i] EXCEPT
                   !.score = scoreOf(configs[i], goal, maxCost, maxEfficiency,
                                     maxWaitTimeMs)]])

(***************************************************************************)
(* FleetOptimizationTab: the cost of the current fleet configuration.      *)
(***************************************************************************)

\* A faulty variant of totalCost, which the properties must tell from it:
\* the overhead is charged once, not once per server.
totalCost_OverheadOnce(numServers, workersPerServer, costPerWorker, perServerOverhead) ==
  IF numServers <= 0 \/ workersPerServer <= 0 THEN Zero
  ELSE FAdd(FMul(FMul(costPerWorker, Int2Num(numServers)), Int2Num(workersPerServer)),
            perServerOverhead)

\* const totalCost = useMemo(() => { ... })
totalCost(numServers, workersPerServer, costPerWorker, perServerOverhead) ==
  IF numServers <= 0 \/ workersPerServer <= 0 THEN Zero
  ELSE FAdd(FMul(FMul(costPerWorker, Int2Num(numServers)), Int2Num(workersPerServer)),
            FMul(perServerOverhead, Int2Num(numServers)))

(***************************************************************************)
(* generateDataPoints: one tuple of metrics for every worker count of a    *)
(* range.                                                                  *)
(***************************************************************************)

\* The tuple pushed for N workers.
dataPoint(N, A, serviceTime) ==
  [workers |-> N,
   probabilityDelay |-> FMul(erlangC(N, A), Hundred),
   waitTime |-> FMul(averageWaitingTime(N, A, serviceTime), Thousand),
   queueLength |-> averageQueueLength(N, A),
   utilization |-> calculateUtilization(N, A),
   trafficIntensity |-> A]

\* for (let N = minWorkers; N <= maxWorkers; N++): v holds [N, dataPoints].
RECURSIVE generateDataPointsLoop(_, _, _, _)
generateDataPointsLoop(v, A, serviceTime, maxWorkers) ==
  IF v.N <= maxWorkers
  THEN generateDataPointsLoop(
         [N |-> v.N + 1,
          dataPoints |-> Append(v.dataPoints, dataPoint(v.N, A, serviceTime))],
         A, serviceTime, maxWorkers)
  ELSE v.dataPoints

\* A faulty variant of generateDataPoints, which the properties must tell
\* from it: the loop stops before maxWorkers.
generateDataPoints_Exclusive(arrivalRate, serviceTime, minWorkers, maxWorkers) ==
  generateDataPointsLoop([N |-> minWorkers, dataPoints |-> <<>>],
                         calculateTrafficIntensity(arrivalRate, serviceTime),
                         serviceTime, maxWorkers - 1)

generateDataPoints(arrivalRate, serviceTime, minWorkers, maxWorkers) ==
  generateDataPointsLoop([N |-> minWorkers, dataPoints |-> <<>>],
                         calculateTrafficIntensity(arrivalRate, serviceTime),
                         serviceTime, maxWorkers)

(***************************************************************************)
(* State: the inputs of a session, the frame of a running findMinWorkers   *)
(* and the last value a function returned.                                 *)
(***************************************************************************)
VARIABLES arrivalRate, serviceTime, pc, frame, ret, tab, sim

vars == <<arrivalRate, serviceTime, pc, frame, ret, tab, sim>>

ArrivalRates == {Int2Num(r) : r \in -1 .. MaxArrivalRate}

ServiceTimes == {Num(h, 2) : h \in 0 .. MaxServiceHalves}

\* The wait-time bounds tried, in seconds.
WaitTimes == {Zero, Num(1, 50), Num(1, 8), Num(1, 2), Num(2, 1)}

WorkerCounts == -1 .. MaxWorkers

NoFrame ==
  [A |-> Zero, N |-> Zero, minN |-> Zero, maxN |-> Zero, maxWaitTime |-> Zero,
   iterations |-> 0]

NoRet == [fn |-> "none", N |-> 0, value |-> Zero]

\* FleetOptimizationTab and QueueComparisonTab are not mounted.
NoTab == [mounted |-> FALSE]

NoSim == [mounted |-> FALSE]

\* The traffic intensity of the session's inputs.
TrafficIntensity == calculateTrafficIntensity(arrivalRate, serviceTime)

\* A rate and a service time, both finite, whose product exceeds the
\* largest number.
OverflowingRate == Int2Num(MAX_VALUE)

OverflowingServiceTime == Int2Num(2)

Init ==
  /\ \/ arrivalRate \in ArrivalRates /\ serviceTime \in ServiceTimes
     \/ arrivalRate = OverflowingRate /\ serviceTime = OverflowingServiceTime
  /\ pc = "ready"
  /\ frame = NoFrame
  /\ ret = NoRet
  /\ tab = NoTab
  /\ sim = NoSim

Returns(fn, N, value) ==
  /\ pc = "ready"
  /\ pc' = "returned"
  /\ ret' = [fn |-> fn, N |-> N, value |-> value]
  /\ UNCHANGED <<tab, sim, arrivalRate, serviceTime, frame>>

Call_calculateTrafficIntensity ==
  Returns("calculateTrafficIntensity", 0, TrafficIntensity)

Call_erlangC ==
  \E N \in WorkerCounts : Returns("erlangC", N, erlangC(N, TrafficIntensity))

Call_averageWaitingTime ==
  \E N \in WorkerCounts :
    Returns("averageWaitingTime", N, averageWaitingTime(N, TrafficIntensity, serviceTime))

Call_averageQueueLength ==
  \E N \in WorkerCounts :
    Returns("averageQueueLength", N, averageQueueLength(N, TrafficIntensity))

Call_calculateUtilization ==
  \E N \in WorkerCounts :
    Returns("calculateUtilization", N, calculateUtilization(N, TrafficIntensity))

Call_findMinWorkers ==
  /\ pc = "ready"
  /\ \E maxWaitTime \in WaitTimes :
       frame' = findMinWorkersEnter(arrivalRate, serviceTime, maxWaitTime)
  /\ pc' = "loop"
  /\ UNCHANGED <<tab, sim, arrivalRate, serviceTime, ret>>

Loop_findMinWorkers ==
  /\ pc = "loop"
  /\ FLe(frame.minN, frame.maxN)
  /\ frame' = findMinWorkersIterate(frame, serviceTime)
  /\ UNCHANGED <<tab, sim, arrivalRate, serviceTime, pc, ret>>

Return_findMinWorkers ==
  /\ pc = "loop"
  /\ ~FLe(frame.minN, frame.maxN)
  /\ pc' = "returned"
  /\ ret' = [fn |-> "findMinWorkers", N |-> 0,
             value |-> findMinWorkersReturn(frame.A, frame.N)]
  /\ UNCHANGED <<tab, sim, arrivalRate, serviceTime, frame>>

\* The worker ranges generateDataPoints is called with: up to three
\* workers, and the empty range.
DataPointRanges ==
  {<<lo, lo + more>> : lo \in WorkerCounts, more \in -1 .. 2}

Call_generateDataPoints ==
  /\ pc = "ready"
  /\ pc' = "returned"
  /\ \E range \in DataPointRanges :
       ret' = [fn |-> "generateDataPoints", N |-> 0,
               value |-> generateDataPoints(arrivalRate, serviceTime,
                                            range[1], range[2]),
               minWorkers |-> range[1], maxWorkers |-> range[2]]
  /\ UNCHANGED <<tab, sim, arrivalRate, serviceTime, frame>>

Next ==
  \/ Call_calculateTrafficIntensity
  \/ Call_erlangC
  \/ Call_averageWaitingTime
  \/ Call_averageQueueLength
  \/ Call_calculateUtilization
  \/ Call_findMinWorkers
  \/ Loop_findMinWorkers
  \/ Return_findMinWorkers
  \/ Call_generateDataPoints

Spec == Init /\ [][Next]_vars

(***************************************************************************)
(* The fleet session: FleetVisualizations and ServerOptimizer are rendered *)
(* with the arrival rate and the service time of the session and with the  *)
(* other inputs of their controls.                                         *)
(***************************************************************************)
FleetArrivalRates == {Int2Num(r) : r \in {1, 3, 12, 27, 54}}

FleetServiceTimes == {Num(1, 2), One}

\* The properties FleetVisualizations is rendered with.
ChainProps(workers, range, wait, prob) ==
  [totalArrivalRate |-> arrivalRate,
   serviceTime |-> serviceTime,
   numServers |-> 3,
   workersPerServer |-> workers,
   maxWaitTimeMs |-> wait,
   maxProbabilityDelay |-> prob,
   costPerWorker |-> Int2Num(10),
   perServerOverhead |-> Int2Num(10),
   optMinWorkers |-> <<range[1]>>,
   optMaxWorkers |-> <<range[2]>>]

\* Few workers per server, under strict and lenient SLAs.
NarrowChainInputs ==
  {ChainProps(workers, range, Int2Num(wait), Int2Num(prob)) :
     workers \in {1, 2}, range \in {<<1, 1>>, <<1, 2>>, <<2, 2>>},
     wait \in {0, 100, 10000}, prob \in {0, 50, 100}}

\* Many workers per server, where Math.pow overflows, under a lenient SLA.
WideChainInputs ==
  IF arrivalRate = Int2Num(12)
  THEN {ChainProps(6, <<5, 7>>, Int2Num(10000), Hundred)}
  ELSE {}

InitFleet ==
  /\ arrivalRate \in FleetArrivalRates
  /\ serviceTime \in FleetServiceTimes
  /\ pc = "ready"
  /\ frame = NoFrame
  /\ ret = NoRet
  /\ tab = NoTab
  /\ sim = NoSim

Call_optimizationChainData ==
  /\ pc = "ready"
  /\ pc' = "returned"
  /\ \E p \in NarrowChainInputs \cup WideChainInputs :
       ret' = [fn |-> "optimizationChainData", N |-> 0,
               value |-> optimizationChainData(p), args |-> p]
  /\ UNCHANGED <<tab, sim, arrivalRate, serviceTime, frame>>

\* The inputs ServerOptimizer is rendered with: the session's rate and
\* service time, the wait-time bound and the state of its own controls.
ScorerInputs ==
  {[arrivalRate |-> arrivalRate,
    serviceTime |-> serviceTime,
    maxWaitTimeMs |-> Int2Num(wait),
    optimizationGoal |-> goal,
    costPerWorker |-> Int2Num(perWorker),
    costPerServer |-> Int2Num(50),
    maxServers |-> servers,
    maxWorkersPerServer |-> workers] :
     wait \in {100, 1000},
     goal \in {"cost", "performance", "balanced", "efficiency"},
     perWorker \in {1, 10}, servers \in {1, 3}, workers \in {1, 4}}

\* Controls under which two configurations of one server reach the same,
\* highest, balanced score.
EqualScoreInputs ==
  IF arrivalRate = One /\ serviceTime = One
    THEN {[arrivalRate |-> arrivalRate,
           serviceTime |-> serviceTime,
           maxWaitTimeMs |-> Thousand,
           optimizationGoal |-> "balanced",
           costPerWorker |-> Int2Num(2),
           costPerServer |-> Int2Num(5),
           maxServers |-> 2,
           maxWorkersPerServer |-> 3]}
    ELSE {}

Call_ServerOptimizer ==
  /\ pc = "ready"
  /\ pc' = "returned"
  /\ \E q \in ScorerInputs \cup EqualScoreInputs :
       LET configs == configurations(q)
           scored == scoredConfigurations(configs, q.optimizationGoal, q.maxWaitTimeMs)
       IN  ret' = [fn |-> "ServerOptimizer", N |-> 0, value |-> scored, args |-> q,
                   configurations |-> configs,
                   optimalConfig |-> IF Len(scored) > 0 THEN <<scored[1]>> ELSE <<>>]
  /\ UNCHANGED <<tab, sim, arrivalRate, serviceTime, frame>>

\* The configurations and prices the cost of the current fleet is computed
\* for; a count is 0 while its number field is empty.
CostInputs ==
  [numServers : 0 .. 3, workersPerServer : 0 .. 3,
   costPerWorker : {One, Int2Num(10)}, perServerOverhead : {Zero, Int2Num(10)}]

Call_totalCost ==
  /\ pc = "ready"
  /\ pc' = "returned"
  /\ \E c \in CostInputs :
       ret' = [fn |-> "totalCost", N |-> 0,
               value |-> totalCost(c.numServers, c.workersPerServer,
                                   c.costPerWorker, c.perServerOverhead),
               args |-> c]
  /\ UNCHANGED <<tab, sim, arrivalRate, serviceTime, frame>>

\* The worker ranges the candidate set is built for: the default range and
\* explicit ones, short, long enough to be sampled, and with the lower end
\* above the upper one; the current workersPerServer within and outside.
CandidateInputs ==
  {[ChainProps(workers, <<1, 1>>, Int2Num(100), Hundred)
      EXCEPT !.optMinWorkers = lo, !.optMaxWorkers = hi] :
     workers \in {1, 5, 130},
     lo \in {<<>>, <<0>>, <<2>>, <<60>>},
     hi \in {<<>>, <<10>>, <<121>>}}

\* Lines 60-84 of optimizationChainData: the sorted candidates.
Call_sortedWorkers ==
  /\ pc = "ready"
  /\ pc' = "returned"
  /\ \E p \in CandidateInputs :
       ret' = [fn |-> "sortedWorkers", N |-> 0,
               value |-> sortedWorkers(
                           workersToTest(p, calculateTrafficIntensity(
                                              p.totalArrivalRate, p.serviceTime))),
               args |-> p]
  /\ UNCHANGED <<tab, sim, arrivalRate, serviceTime, frame>>

\* The numbers of servers of the current configuration.  The chain does not
\* depend on numServers beyond isValid, so the analysis takes the chain of
\* the render and its inputs with numServers replaced.
CurrentServers == {3, 7}

\* The rest of a render of FleetVisualizations, once the chain is computed:
\* the analysis of the current configuration and the fallback search.
Call_currentAnalysis ==
  /\ pc = "returned"
  /\ ret.fn = "optimizationChainData"
  /\ pc' = "analysed"
  /\ \E s \in CurrentServers :
       ret' = [fn |-> "currentAnalysis", N |-> 0,
               value |-> fallbackSearch([ret.args EXCEPT !.numServers = s],
                                        Len(ret.value) > 0,
                                        currentAnalysis(
                                          [ret.args EXCEPT !.numServers = s],
                                          ret.value)),
               args |-> [ret.args EXCEPT !.numServers = s]]
  /\ UNCHANGED <<tab, sim, arrivalRate, serviceTime, frame>>

NextFleet ==
  \/ Call_optimizationChainData
  \/ Call_sortedWorkers
  \/ Call_ServerOptimizer
  \/ Call_totalCost
  \/ Call_currentAnalysis

FleetSpec == InitFleet /\ [][NextFleet]_vars

(***************************************************************************)
(* FleetOptimizationTab: the state of the tab, its two synchronising       *)
(* effects and the user's actions.  tab holds the six state values the     *)
(* effects read or write (workersPerServer as an integer, the others as    *)
(* numbers), the configurations saved in ConfigurationManager, and what    *)
(* React keeps between commits: pending, the effects whose dependencies    *)
(* changed in the last commit and which run before the next user action.   *)
(* passes, effectRuns and rewritten record the effect runs since the last  *)
(* user action (or since the mount).                                       *)
(***************************************************************************)
\* The largest number of effect passes counted.
MaxEffectPasses == 4

\* The largest number of configurations kept in ConfigurationManager.
MaxSavedConfigs == 1

\* Math.round(x), Math.abs(x)
Math_round(x) == Math_floorNum(FAdd(x, Num(1, 2)))

Math_abs(x) == IF isNaN(x) THEN NaN ELSE IF x.n < 0 THEN FNeg(x) ELSE x

\* const serviceTime = serviceTimeMs / 1000;
tabServiceTime(t) == FDiv(t.serviceTimeMs, Thousand)

\* const currentUtilization = useMemo(() => { ... })
currentUtilization(t) ==
  IF FLe(t.numServers, Zero) \/ t.workersPerServer <= 0 THEN Zero
  ELSE LET arrivalRatePerServer == FDiv(t.totalArrivalRate, t.numServers)
           trafficIntensityPerServer ==
             calculateTrafficIntensity(arrivalRatePerServer, tabServiceTime(t))
       IN  calculateUtilization(t.workersPerServer, trafficIntensityPerServer)

\* A faulty variant of calculateServersForUtilization, which the properties
\* must tell from it: the quotient is rounded down.
calculateServersForUtilization_Floor(t) ==
  IF ~t.useTargetUtilization \/ t.workersPerServer <= 0
       \/ ~FLt(Zero, t.targetUtilization)
  THEN t.numServers
  ELSE LET totalTrafficIntensity ==
             calculateTrafficIntensity(t.totalArrivalRate, tabServiceTime(t))
           requiredServers ==
             Math_floorNum(FDiv(FMul(totalTrafficIntensity, Hundred),
                                FMul(t.targetUtilization,
                                     Int2Num(t.workersPerServer))))
       IN  Math_max(One, requiredServers)

\* const calculateServersForUtilization = useMemo(() => { ... })
calculateServersForUtilization(t) ==
  IF ~t.useTargetUtilization \/ t.workersPerServer <= 0
       \/ ~FLt(Zero, t.targetUtilization)
  THEN t.numServers
  ELSE LET totalTrafficIntensity ==
             calculateTrafficIntensity(t.totalArrivalRate, tabServiceTime(t))
           requiredServers ==
             Math_ceilNum(FDiv(FMul(totalTrafficIntensity, Hundred),
                               FMul(t.targetUtilization,
                                    Int2Num(t.workersPerServer))))
       IN  Math_max(One, requiredServers)

\* The first effect: the value it passes to setNumServers, <<>> if none.
effectUpdateServers(t) ==
  IF t.useTargetUtilization
  THEN LET newServers == calculateServersForUtilization(t)
       IN  IF newServers # t.numServers /\ FLt(Zero, newServers)
           THEN <<newServers>> ELSE <<>>
  ELSE <<>>

\* A faulty variant of effectUpdateTarget, which the properties must tell
\* from it: the effect does not test useTargetUtilization.
effectUpdateTarget_AlsoWhenAuto(t) ==
  IF FLt(Zero, currentUtilization(t)) /\ FLe(currentUtilization(t), Hundred)
  THEN LET roundedUtil == Math_round(currentUtilization(t))
       IN  IF FLt(Num(1, 2), Math_abs(FSub(roundedUtil, t.targetUtilization)))
           THEN <<roundedUtil>> ELSE <<>>
  ELSE <<>>

\* The second effect: the value it passes to setTargetUtilization, <<>> if
\* none.
effectUpdateTarget(t) ==
  IF ~t.useTargetUtilization
       /\ FLt(Zero, currentUtilization(t)) /\ FLe(currentUtilization(t), Hundred)
  THEN LET roundedUtil == Math_round(currentUtilization(t))
       IN  IF FLt(Num(1, 2), Math_abs(FSub(roundedUtil, t.targetUtilization)))
           THEN <<roundedUtil>> ELSE <<>>
  ELSE <<>>

\* The dependency arrays of the two effects.
serversDeps(t) ==
  <<t.useTargetUtilization, t.targetUtilization, t.totalArrivalRate,
    t.serviceTimeMs, t.workersPerServer>>

targetDeps(t) ==
  <<t.numServers, t.workersPerServer, t.totalArrivalRate, t.serviceTimeMs>>

\* The effects React runs after a commit that replaces the state old by new.
changedEffects(old, new) ==
  (IF serversDeps(old) # serversDeps(new) THEN {"servers"} ELSE {})
  \cup (IF targetDeps(old) # targetDeps(new) THEN {"target"} ELSE {})

\* const getCurrentConfig = () => { ... }
getCurrentConfig(t) ==
  [totalArrivalRate |-> t.totalArrivalRate,
   serviceTimeMs |-> t.serviceTimeMs,
   numServers |-> t.numServers,
   workersPerServer |-> t.workersPerServer,
   targetUtilization |-> t.targetUtilization,
   useTargetUtilization |-> t.useTargetUtilization]

\* const handleLoadConfig = (config) => { ... }
handleLoadConfig(t, config) ==
  [t EXCEPT !.totalArrivalRate = config.totalArrivalRate,
            !.serviceTimeMs = config.serviceTimeMs,
            !.numServers = config.numServers,
            !.workersPerServer = config.workersPerServer,
            !.targetUtilization = config.targetUtilization,
            !.useTargetUtilization = config.useTargetUtilization]

\* The values typed or dragged into the inputs; an emptied field gives 0.
TabArrivalRates == {Int2Num(100)}

TabServiceTimesMs == {Zero, Int2Num(50)}

TabServers == {Zero, One}

TabWorkers == {0, 5}

TabTargets == {Zero, Int2Num(50)}

\* useState(() => getQueryParam(...)): the tab as it mounts, from the
\* defaults or from the query string, which Number() reads and which may
\* spell Infinity.  Every effect runs after the first commit.
TabInit ==
  /\ arrivalRate = Zero
  /\ serviceTime = Zero
  /\ pc = "ready"
  /\ frame = NoFrame
  /\ ret = NoRet
  /\ sim = NoSim
  /\ \E rate \in {Int2Num(100), Infinity}, ms \in {Int2Num(50), Zero},
        auto \in BOOLEAN :
       tab = [mounted |-> TRUE,
              totalArrivalRate |-> rate,
              serviceTimeMs |-> ms,
              numServers |-> Int2Num(3),
              workersPerServer |-> 5,
              targetUtilization |-> Int2Num(75),
              useTargetUtilization |-> auto,
              savedConfigs |-> {},
              pending |-> {"servers", "target"},
              passes |-> 0,
              effectRuns |-> 0,
              rewritten |-> {}]

\* React flushes the effects of the last commit: each pending effect runs on
\* the values of that commit, and their updates make the next commit.
RunEffects ==
  /\ tab.pending # {}
  /\ LET servers == IF "servers" \in tab.pending
                    THEN effectUpdateServers(tab) ELSE <<>>
         target == IF "target" \in tab.pending
                   THEN effectUpdateTarget(tab) ELSE <<>>
         new == [tab EXCEPT
                   !.numServers = IF servers # <<>> THEN servers[1] ELSE @,
                   !.targetUtilization = IF target # <<>> THEN target[1] ELSE @]
     IN  tab' = [new EXCEPT
                   !.pending = changedEffects(tab, new),
                   !.passes = IF @ < MaxEffectPasses THEN @ + 1 ELSE @,
                   !.effectRuns = IF @ < 2 * MaxEffectPasses
                                  THEN @ + Cardinality(tab.pending) ELSE @,
                   !.rewritten = @ \cup (IF servers # <<>> THEN {"numServers"} ELSE {})
                                   \cup (IF target # <<>>
                                         THEN {"targetUtilization"} ELSE {})]
  /\ UNCHANGED <<arrivalRate, serviceTime, pc, frame, ret, sim>>

\* An event handler of the user replaces the state by new, once the effects
\* of the previous commit have run.
UserAction(new) ==
  /\ tab.pending = {}
  /\ tab' = [new EXCEPT !.pending = changedEffects(tab, new),
                        !.passes = 0, !.effectRuns = 0, !.rewritten = {}]
  /\ UNCHANGED <<arrivalRate, serviceTime, pc, frame, ret, sim>>

setTotalArrivalRate ==
  \E val \in TabArrivalRates : UserAction([tab EXCEPT !.totalArrivalRate = val])

setServiceTimeMs ==
  \E val \in TabServiceTimesMs : UserAction([tab EXCEPT !.serviceTimeMs = val])

\* if (useTargetUtilization) return; the slider is disabled then.
setNumServers ==
  /\ ~tab.useTargetUtilization
  /\ \E val \in TabServers : UserAction([tab EXCEPT !.numServers = val])

setWorkersPerServer ==
  \E val \in TabWorkers : UserAction([tab EXCEPT !.workersPerServer = val])

setTargetUtilization ==
  \E val \in TabTargets : UserAction([tab EXCEPT !.targetUtilization = val])

\* onChange={(e) => setUseTargetUtilization(e.target.checked)}
setUseTargetUtilization ==
  UserAction([tab EXCEPT !.useTargetUtilization = ~@])

\* ConfigurationManager.handleSave: the current parameters join the list.
handleSave ==
  /\ Cardinality(tab.savedConfigs) < MaxSavedConfigs
  /\ UserAction([tab EXCEPT !.savedConfigs = @ \cup {getCurrentConfig(tab)}])

\* ConfigurationManager.handleLoad of one of the saved configurations.
handleLoad ==
  \E config \in tab.savedConfigs : UserAction(handleLoadConfig(tab, config))

TabNext ==
  \/ RunEffects
  \/ setTotalArrivalRate
  \/ setServiceTimeMs
  \/ setNumServers
  \/ setWorkersPerServer
  \/ setTargetUtilization
  \/ setUseTargetUtilization
  \/ handleSave
  \/ handleLoad

TabSpec == TabInit /\ [][TabNext]_vars

(***************************************************************************)
(* QueueComparisonTab (src/unnamed/part_004): the animation of the         *)
(* separate queues and of the shared queue.  Time is counted in ticks of   *)
(* 200 ms.  sim holds the clock, the id counter, workersPerQueue and, for  *)
(* each system, the requests (the React state) and the workers (the ref    *)
(* the updaters read and write).  A request is a record; its workerId is   *)
(* <<>> while undefined.  A worker's requestId is <<>> for null.           *)
(* A state updater is a function of the previous requests that also        *)
(* writes the workers, so a second invocation for the same frame starts    *)
(* from the workers the first one left; which of the two results React     *)
(* keeps is not decided by this code, and the model allows either.         *)
(***************************************************************************)
\* The last tick of the clock and the number of requests spawned.
MaxTicks == 6

MaxRequests == 3

\* const minQueues = 2: the number of queues the model runs with.
numQueues == 2

\* progress + delta * 0.003 per ms: tenths of the fall per tick of 200 ms.
FallPerTick == 6

FallDone == 10

\* now - r.doneAt > 400, in ticks.
DoneLinger == 2

\* sepWorkers.push({ id: q * workersPerQueue + w, queueId: q, ... })
separateWorkersInit(workersPerQueue) ==
  [i \in 1 .. numQueues * workersPerQueue |->
     [id |-> i - 1, queueId |-> (i - 1) \div workersPerQueue, busy |-> FALSE,
      requestId |-> <<>>, startTime |-> 0]]

\* Array(totalWorkers).fill(null).map((_, i) => ({ id: i, ... })): the
\* shared workers have no queueId; the model gives them the queue 0.
sharedWorkersInit(workersPerQueue) ==
  [i \in 1 .. numQueues * workersPerQueue |->
     [id |-> i - 1, queueId |-> 0, busy |-> FALSE,
      requestId |-> <<>>, startTime |-> 0]]

\* prev.map(req => ...): a falling request advances and joins its queue.
advanceFalling(prev, now, delta) ==
  [i \in 1 .. Len(prev) |->
     IF prev[i].phase = "falling"
     THEN LET newProgress == prev[i].progress + delta * FallPerTick
          IN  IF newProgress >= FallDone
              THEN [prev[i] EXCEPT !.phase = "in-queue", !.progress = FallDone,
                                   !.queuedAt = now]
              ELSE [prev[i] EXCEPT !.progress = newProgress]
     ELSE prev[i]]

\* !r.workerId: undefined and 0 are both falsy.
noWorkerId(r) == r.workerId = <<>> \/ r.workerId = <<0>>

\* The indexes of the requests waiting in a queue (inQueue(r) says which),
\* in the order of the list.
RECURSIVE queuedIndexes(_, _, _, _)
queuedIndexes(updated, queueId, shared, i) ==
  IF i > Len(updated) THEN <<>>
  ELSE LET r == updated[i]
           rest == queuedIndexes(updated, queueId, shared, i + 1)
       IN  IF r.phase = "in-queue" /\ (shared \/ r.targetQueue = queueId)
                /\ noWorkerId(r)
           THEN <<i>> \o rest ELSE rest

\* .sort((a, b) => a.queuedAt - b.queuedAt): a stable insertion.
RECURSIVE insertByQueuedAt(_, _, _)
insertByQueuedAt(sorted, i, updated) ==
  IF sorted = <<>> THEN <<i>>
  ELSE IF updated[Head(sorted)].queuedAt <= updated[i].queuedAt
       THEN <<Head(sorted)>> \o insertByQueuedAt(Tail(sorted), i, updated)
       ELSE <<i>> \o sorted

RECURSIVE sortByQueuedAt(_, _)
sortByQueuedAt(indexes, updated) ==
  IF indexes = <<>> THEN <<>>
  ELSE insertByQueuedAt(sortByQueuedAt(Tail(indexes), updated), Head(indexes),
                        updated)

\* workers.find(w => ...): the index of the first worker that has the
\* request, of the first free worker of a queue; 0 if none.
RECURSIVE findWorkerOf(_, _, _)
findWorkerOf(workers, id, k) ==
  IF k > Len(workers) THEN 0
  ELSE IF workers[k].requestId = <<id>> THEN k
  ELSE findWorkerOf(workers, id, k + 1)

RECURSIVE findFreeWorker(_, _, _, _)
findFreeWorker(workers, queueId, shared, k) ==
  IF k > Len(workers) THEN 0
  ELSE IF (shared \/ workers[k].queueId = queueId) /\ ~workers[k].busy THEN k
  ELSE findFreeWorker(workers, queueId, shared, k + 1)

\* updated.map(r => r.id === id ? { ...r, phase: 'processing', workerId } : r)
markProcessing(updated, id, workerId) ==
  [i \in 1 .. Len(updated) |->
     IF updated[i].id = id
     THEN [updated[i] EXCEPT !.phase = "processing", !.workerId = <<workerId>>]
     ELSE updated[i]]

\* for (const req of queuedForThisQueue) { ... }: c holds the requests and
\* the workers, queued the indexes still to visit.
RECURSIVE assignQueued(_, _, _, _, _)
assignQueued(c, queued, queueId, shared, now) ==
  IF queued = <<>> THEN c
  ELSE LET req == c.updated[Head(queued)]
           assignedWorker == findWorkerOf(c.workers, req.id, 1)
           freeWorker == findFreeWorker(c.workers, queueId, shared, 1)
       IN  IF assignedWorker # 0
           THEN assignQueued(
                  [c EXCEPT !.updated =
                     markProcessing(@, req.id, c.workers[assignedWorker].id)],
                  Tail(queued), queueId, shared, now)
           ELSE IF freeWorker = 0 THEN c
           ELSE assignQueued(
                  [updated |-> markProcessing(c.updated, req.id,
                                              c.workers[freeWorker].id),
                   workers |-> [c.workers EXCEPT
                                  ![freeWorker].busy = TRUE,
                                  ![freeWorker].requestId = <<req.id>>,
                                  ![freeWorker].startTime = now]],
                  Tail(queued), queueId, shared, now)

\* for (let queueId = 0; queueId < numQueues; queueId++) { ... }; the shared
\* queue is one pass over all workers.
RECURSIVE assignQueues(_, _, _, _)
assignQueues(c, queueId, shared, now) ==
  IF queueId >= (IF shared THEN 1 ELSE numQueues) THEN c
  ELSE assignQueues(
         assignQueued(c,
                      sortByQueuedAt(queuedIndexes(c.updated, queueId, shared, 1),
                                     c.updated),
                      queueId, shared, now),
         queueId + 1, shared, now)

\* updated.find(r => r.id === worker.requestId)?.serviceTimeMs || serviceMs
RECURSIVE serviceTimeOf(_, _, _, _)
serviceTimeOf(updated, id, serviceMs, i) ==
  IF i > Len(updated) THEN serviceMs
  ELSE IF updated[i].id = id
       THEN (IF updated[i].serviceTimeMs # 0 THEN updated[i].serviceTimeMs
             ELSE serviceMs)
  ELSE serviceTimeOf(updated, id, serviceMs, i + 1)

\* workers.forEach((worker) => { if (worker.busy && worker.startTime) ... })
RECURSIVE completeProcessing(_, _, _, _)
completeProcessing(c, k, now, serviceMs) ==
  IF k > Len(c.workers) THEN c
  ELSE LET worker == c.workers[k]
       IN  IF worker.busy /\ worker.startTime # 0
                /\ now - worker.startTime
                     >= serviceTimeOf(c.updated, worker.requestId[1], serviceMs, 1)
           THEN completeProcessing(
                  [updated |->
                     [i \in 1 .. Len(c.updated) |->
                        IF c.updated[i].id = worker.requestId[1]
                        THEN [c.updated[i] EXCEPT !.phase = "done", !.doneAt = now]
                        ELSE c.updated[i]],
                   workers |-> [c.workers EXCEPT ![k].busy = FALSE,
                                                 ![k].requestId = <<>>,
                                                 ![k].startTime = 0]],
                  k + 1, now, serviceMs)
           ELSE completeProcessing(c, k + 1, now, serviceMs)

\* updated.filter(r => !(r.phase === 'done' && now - r.doneAt > 400))
RECURSIVE removeDone(_, _, _)
removeDone(updated, now, i) ==
  IF i > Len(updated) THEN <<>>
  ELSE IF updated[i].phase = "done" /\ now - updated[i].doneAt > DoneLinger
       THEN removeDone(updated, now, i + 1)
       ELSE <<updated[i]>> \o removeDone(updated, now, i + 1)

\* One invocation of the updater of setSeparateRequests (shared = FALSE) or
\* setSharedRequests (shared = TRUE): the requests it returns and the
\* workers it leaves in the ref.
updateRequests(prev, workers, shared, now, delta, serviceMs) ==
  LET assigned == assignQueues([updated |-> advanceFalling(prev, now, delta),
                                workers |-> workers], 0, shared, now)
      completed == completeProcessing(assigned, 1, now, serviceMs)
  IN  [updated |-> removeDone(completed.updated, now, 1),
       workers |-> completed.workers]

\* The updater invoked once or twice for one frame: the workers are those
\* the last invocation leaves, the requests those of the invocation kept.
invokeUpdater(prev, workers, shared, now, delta, serviceMs, invocations, kept) ==
  LET first == updateRequests(prev, workers, shared, now, delta, serviceMs)
      second == updateRequests(prev, first.workers, shared, now, delta, serviceMs)
  IN  IF invocations = 1 THEN first
      ELSE [updated |-> IF kept = 1 THEN first.updated ELSE second.updated,
            workers |-> second.workers]

\* queueCounts: the busy workers of a queue plus its falling and queued
\* requests, the latter counted once for every invocation of the updater.
queueCount(prev, workers, q, invocations) ==
  Cardinality({k \in 1 .. Len(workers) : workers[k].busy /\ workers[k].queueId = q})
  + invocations
    * Cardinality({i \in 1 .. Len(prev) :
                     /\ prev[i].phase \in {"falling", "in-queue"}
                     /\ prev[i].targetQueue = q})

\* Find queue with minimum count (least-queued): the first such queue.
RECURSIVE leastQueued(_, _, _, _, _)
leastQueued(prev, workers, invocations, i, best) ==
  IF i >= numQueues THEN best
  ELSE leastQueued(prev, workers, invocations, i + 1,
                   IF queueCount(prev, workers, i, invocations)
                        < queueCount(prev, workers, best, invocations)
                   THEN i ELSE best)

\* return [...prev, { id, phase: 'falling', progress: 0, targetQueue, ... }]
spawnRequest(prev, id, targetQueue, now, serviceTimeMs) ==
  Append(prev, [id |-> id, phase |-> "falling", progress |-> 0,
                targetQueue |-> targetQueue, queuedAt |-> 0, workerId |-> <<>>,
                createdAt |-> now, doneAt |-> 0, serviceTimeMs |-> serviceTimeMs])

\* The service times drawn for a request and the configured one, in ticks.
ServiceTicks == {1, 2}

serviceMs == 1

\* The ways React may invoke an updater: once, or twice keeping either
\* result.
Invocations == {<<1, 1>>, <<2, 1>>, <<2, 2>>}

SimInit ==
  /\ arrivalRate = Zero
  /\ serviceTime = Zero
  /\ pc = "ready"
  /\ frame = NoFrame
  /\ ret = NoRet
  /\ tab = NoTab
  /\ \E workersPerQueue \in {1, 2} :
       sim = [mounted |-> TRUE, isRunning |-> TRUE, now |-> 1, requestId |-> 0,
              workersPerQueue |-> workersPerQueue,
              separateRequests |-> <<>>, sharedRequests |-> <<>>,
              separateWorkers |-> separateWorkersInit(workersPerQueue),
              sharedWorkers |-> sharedWorkersInit(workersPerQueue)]

\* One frame of animate: the clock advances, a request may be spawned into
\* both systems, and both updaters run.
animate ==
  /\ sim.isRunning
  /\ sim.now < MaxTicks
  /\ \E delta \in {1, 2}, spawn \in BOOLEAN, serviceTimeMs \in ServiceTicks,
        sep \in Invocations, sha \in Invocations :
       /\ spawn => sim.requestId < MaxRequests
       /\ LET now == sim.now + delta
              id == sim.requestId
              targetQueue == leastQueued(sim.separateRequests, sim.separateWorkers,
                                         IF sep[1] = 2 /\ sep[2] = 2 THEN 2 ELSE 1,
                                         1, 0)
              sepPrev == IF spawn
                         THEN spawnRequest(sim.separateRequests, id, targetQueue,
                                           now, serviceTimeMs)
                         ELSE sim.separateRequests
              shaPrev == IF spawn
                         THEN spawnRequest(sim.sharedRequests, id, 0, now,
                                           serviceTimeMs)
                         ELSE sim.sharedRequests
              separate == invokeUpdater(sepPrev, sim.separateWorkers, FALSE, now,
                                        delta, serviceMs, sep[1], sep[2])
              shared == invokeUpdater(shaPrev, sim.sharedWorkers, TRUE, now,
                                      delta, serviceMs, sha[1], sha[2])
          IN  sim' = [sim EXCEPT
                        !.now = now,
                        !.requestId = IF spawn THEN @ + 1 ELSE @,
                        !.separateRequests = separate.updated,
                        !.separateWorkers = separate.workers,
                        !.sharedRequests = shared.updated,
                        !.sharedWorkers = shared.workers]
  /\ UNCHANGED <<arrivalRate, serviceTime, pc, frame, ret, tab>>

\* onClick={() => setIsRunning(!isRunning)}
setIsRunning ==
  /\ sim' = [sim EXCEPT !.isRunning = ~@]
  /\ UNCHANGED <<arrivalRate, serviceTime, pc, frame, ret, tab>>

\* const resetSimulation = useCallback(() => { ... })
resetSimulation ==
  /\ sim' = [sim EXCEPT
               !.requestId = 0,
               !.separateRequests = <<>>, !.sharedRequests = <<>>,
               !.separateWorkers = separateWorkersInit(sim.workersPerQueue),
               !.sharedWorkers = sharedWorkersInit(sim.workersPerQueue)]
  /\ UNCHANGED <<arrivalRate, serviceTime, pc, frame, ret, tab>>

\* setWorkersPerQueue, and the effect that initializes the workers.
setWorkersPerQueue ==
  /\ \E val \in {1, 2} :
       /\ val # sim.workersPerQueue
       /\ sim' = [sim EXCEPT
                    !.workersPerQueue = val,
                    !.separateRequests = <<>>, !.sharedRequests = <<>>,
                    !.separateWorkers = separateWorkersInit(val),
                    !.sharedWorkers = sharedWorkersInit(val)]
  /\ UNCHANGED <<arrivalRate, serviceTime, pc, frame, ret, tab>>

SimNext ==
  \/ animate
  \/ setIsRunning
  \/ resetSimulation
  \/ setWorkersPerQueue

SimSpec == SimInit /\ [][SimNext]_vars

(***************************************************************************)
(* Properties.  Each is stated on the state in which the function it is    *)
(* about has returned: ret holds the function's name, its worker count and *)
(* its value, frame the locals of findMinWorkers.                          *)
(***************************************************************************)
\* 0 <= x <= 1, which no NaN satisfies.
InUnit(x) == FLe(Zero, x) /\ FLe(x, One)

\* The wait-time predicate of the search at worker count N.
MeetsBound(N) ==
  FLe(averageWaitingTime(N, frame.A, serviceTime), frame.maxWaitTime)

\* The search range [ceil(A), ceil(3A)] of findMinWorkers.
SearchRange == Math_ceil(frame.A) .. Math_ceil(FMul(frame.A, Int2Num(3)))

\* term_k = term_{k-1} * A / k, term_0 = 1: A^k/k! as the specification
\* asks for it to be computed.
RECURSIVE ErlangTerm(_, _)
ErlangTerm(A, k) ==
  IF k = 0 THEN One ELSE FDiv(FMul(ErlangTerm(A, k - 1), A), Int2Num(k))

\* The sum of term_0 .. term_k.
RECURSIVE ErlangTermSum(_, _)
ErlangTermSum(A, k) ==
  IF k < 0 THEN Zero ELSE FAdd(ErlangTermSum(A, k - 1), ErlangTerm(A, k))

\* (A^N/N!) / (A^N/N! + (1 - A/N) * sum_{k=0..N-1} A^k/k!)
ClassicalErlangC(N, A) ==
  LET t == ErlangTerm(A, N)
  IN  FDiv(t, FAdd(t, FMul(FSub(One, FDiv(A, Int2Num(N))), ErlangTermSum(A, N - 1))))

\* C1: findMinWorkers minimality.  Whenever some N of the search range with
\* N > A meets the wait-time bound, the returned N meets the bound and N - 1
\* is <= A or violates the bound.
C1_Minimality ==
  (/\ ret.fn = "findMinWorkers"
   /\ FGe(arrivalRate, Zero)
   /\ FLt(Zero, serviceTime)
   /\ \E N \in SearchRange : FLt(frame.A, Int2Num(N)) /\ MeetsBound(N))
  => LET r == ret.value.n
     IN  /\ MeetsBound(r)
         /\ (FLe(Int2Num(r - 1), frame.A) \/ ~MeetsBound(r - 1))

\* C2: findMinWorkers stability floor.  For arrivalRate >= 0, serviceTime >= 0
\* and any maxWaitTime the returned N is an integer, N >= ceil(A) + 1 and
\* N > A.
C2_StabilityFloor ==
  (ret.fn = "findMinWorkers" /\ FGe(arrivalRate, Zero) /\ FGe(serviceTime, Zero))
  => /\ ret.value.d = 1
     /\ ret.value.n >= Math_ceil(frame.A) + 1
     /\ FLt(frame.A, ret.value)

\* C2 witness: findMinWorkers has returned after a search that had settled on
\* N = ceil(A), below the floor, for a non-integer A.
C2_Witness ==
  /\ ret.fn = "findMinWorkers"
  /\ FGe(arrivalRate, Zero)
  /\ frame.iterations > 0
  /\ frame.N = Int2Num(Math_ceil(frame.A))
  /\ ret.value.n = Math_ceil(frame.A) + 1

\* C3: findMinWorkers best-effort fallback.  When no N of the search range
\* meets the bound, the returned N is the upper end ceil(3A) of the range,
\* whose wait time is the smallest of the range.
C3_FallbackUpperBound ==
  (/\ ret.fn = "findMinWorkers"
   /\ FLt(Zero, frame.A)
   /\ \A N \in SearchRange : ~MeetsBound(N))
  => /\ ret.value = Int2Num(Math_ceil(FMul(frame.A, Int2Num(3))))
     /\ \A N \in SearchRange :
          FLe(averageWaitingTime(ret.value.n, frame.A, serviceTime),
              averageWaitingTime(N, frame.A, serviceTime))

\* C4: erlangC formula.  For N >= 1 and 0 <= A < N the value of erlangC lies
\* in [0, 1] and equals the classical formula; erlangC(N, 0) = 0.
C4_Formula ==
  (/\ ret.fn = "erlangC"
   /\ ret.N >= 1
   /\ FLe(Zero, TrafficIntensity)
   /\ FLt(TrafficIntensity, Int2Num(ret.N)))
  => /\ InUnit(ret.value)
     /\ (TrafficIntensity = Zero => ret.value = Zero)
     /\ ret.value = ClassicalErlangC(ret.N, TrafficIntensity)

\* C5 as claimed: erlangC(N, A) = 1 for any pair with A >= N, whatever N.
C5_SaturationAnyN ==
  (ret.fn = "erlangC" /\ FGe(TrafficIntensity, Int2Num(ret.N)))
  => ret.value = One

\* C5 as amended: erlangC(N, A) = 1 for every N >= 1 and every A >= N.
C5_Saturation ==
  (ret.fn = "erlangC" /\ ret.N >= 1 /\ FGe(TrafficIntensity, Int2Num(ret.N)))
  => ret.value = One

\* C5 witness: erlangC has returned for an overloaded system, A > N >= 1.
C5_Witness ==
  /\ ret.fn = "erlangC"
  /\ ret.N >= 1
  /\ FLt(Int2Num(ret.N), TrafficIntensity)
  /\ ret.value = One

\* C6: erlangC degenerate input.  For N <= 0 (any A) and for A < 0 (any N)
\* erlangC returns exactly 0.
C6_Degenerate ==
  (ret.fn = "erlangC" /\ (ret.N <= 0 \/ FLt(TrafficIntensity, Zero)))
  => ret.value = Zero

\* C6 witness: erlangC has returned 0 for N <= 0 although A >= N, the case
\* the overload guard would answer with 1.
C6_Witness ==
  /\ ret.fn = "erlangC"
  /\ ret.N <= 0
  /\ FLt(Zero, TrafficIntensity)
  /\ ret.value = Zero

\* C7: averageWaitingTime returns +Infinity exactly when N <= A and otherwise
\* erlangC(N, A) * serviceTime / (N - A), finite and >= 0 for serviceTime >= 0.
C7_WaitingTime ==
  (ret.fn = "averageWaitingTime" /\ FGe(serviceTime, Zero))
  => /\ (ret.value = Infinity) <=> FLe(Int2Num(ret.N), TrafficIntensity)
     /\ ~FLe(Int2Num(ret.N), TrafficIntensity)
          => /\ ret.value =
                  FDiv(FMul(erlangC(ret.N, TrafficIntensity), serviceTime),
                       FSub(Int2Num(ret.N), TrafficIntensity))
             /\ isFinite(ret.value)
             /\ FGe(ret.value, Zero)

\* C8: averageQueueLength returns +Infinity exactly when N <= A, and for a
\* stable (N, A) with A = arrivalRate * serviceTime it is
\* arrivalRate * averageWaitingTime(N, A, serviceTime) (Little's law).
C8_QueueLength ==
  ret.fn = "averageQueueLength"
  => /\ (ret.value = Infinity) <=> FLe(Int2Num(ret.N), TrafficIntensity)
     /\ ~FLe(Int2Num(ret.N), TrafficIntensity)
          => ret.value =
               FMul(arrivalRate,
                    averageWaitingTime(ret.N, TrafficIntensity, serviceTime))

\* C8 witness: averageQueueLength has returned a positive finite queue length
\* for a stable system with traffic.
C8_Witness ==
  /\ ret.fn = "averageQueueLength"
  /\ FLt(Zero, TrafficIntensity)
  /\ FLt(TrafficIntensity, Int2Num(ret.N))
  /\ isFinite(ret.value)
  /\ FLt(Zero, ret.value)

\* C9: calculateUtilization.  For A >= 0 and N >= 0 the value is 0 when
\* N = 0 and min(100, A/N*100) otherwise, hence within [0, 100].
C9_Utilization ==
  (ret.fn = "calculateUtilization" /\ ret.N >= 0 /\ FGe(TrafficIntensity, Zero))
  => /\ ret.value =
          IF ret.N = 0 THEN Zero
          ELSE IF TrafficIntensity.n >= ret.N * TrafficIntensity.d THEN Hundred
          ELSE Num(100 * TrafficIntensity.n, ret.N * TrafficIntensity.d)
     /\ FLe(Zero, ret.value)
     /\ FLe(ret.value, Hundred)

\* C9 witness: calculateUtilization has returned for an overloaded system
\* (A > N > 0), where the cap applies.
C9_Witness ==
  /\ ret.fn = "calculateUtilization"
  /\ ret.N > 0
  /\ FLt(Int2Num(ret.N), TrafficIntensity)
  /\ ret.value = Hundred

\* C10: erlangC monotonicity.  For A >= 0 and N >= 1,
\* erlangC(N + 1, A) <= erlangC(N, A).
C10_Monotone ==
  (ret.fn = "erlangC" /\ ret.N >= 1 /\ FGe(TrafficIntensity, Zero))
  => FLe(erlangC(ret.N + 1, TrafficIntensity), ret.value)

\* C11: averageWaitingTime monotonicity.  For A >= 0, serviceTime >= 0 and
\* N >= 1, averageWaitingTime(N + 1, A, serviceTime) <=
\* averageWaitingTime(N, A, serviceTime), +Infinity (N <= A) being the largest
\* value.
C11_WaitMonotone ==
  (/\ ret.fn = "averageWaitingTime"
   /\ ret.N >= 1
   /\ FGe(TrafficIntensity, Zero)
   /\ FGe(serviceTime, Zero))
  => FLe(averageWaitingTime(ret.N + 1, TrafficIntensity, serviceTime), ret.value)

\* The load of one server when the fleet of the chain's inputs has s servers.
ChainServerLoad(s) ==
  calculateTrafficIntensity(FDiv(ret.args.totalArrivalRate, Int2Num(s)),
                            ret.args.serviceTime)

\* s servers of w workers each are stable and meet both bounds of the SLA.
ChainFeasible(s, w) ==
  /\ FLt(ChainServerLoad(s), Int2Num(w))
  /\ FLe(FMul(averageWaitingTime(w, ChainServerLoad(s), ret.args.serviceTime),
              Thousand),
         ret.args.maxWaitTimeMs)
  /\ FLe(FMul(erlangC(w, ChainServerLoad(s)), Hundred),
         ret.args.maxProbabilityDelay)

C13_ChainOptimal ==
  ret.fn = "optimizationChainData"
  => \A i \in 1 .. Len(ret.value) :
       LET r == ret.value[i]
       IN  /\ \A s \in 1 .. (r.minServersRequired.n - 1) :
                ~ChainFeasible(s, r.workersPerServer)
           /\ r.maxFeasibleUtilization =
                calculateUtilization(r.workersPerServer,
                                     ChainServerLoad(r.minServersRequired.n))

\* C14: optimization chain trend.  Of two records of one chain the one with
\* more workers per server requires no more servers.
C14_ChainTrend ==
  ret.fn = "optimizationChainData"
  => \A i \in 1 .. Len(ret.value) : \A j \in 1 .. Len(ret.value) :
       ret.value[i].workersPerServer < ret.value[j].workersPerServer
       => FLe(ret.value[j].minServersRequired, ret.value[i].minServersRequired)

\* The load of one server when the scorer's arrival rate is split over s.
ScorerServerLoad(s) ==
  calculateTrafficIntensity(FDiv(ret.args.arrivalRate, Int2Num(s)),
                            ret.args.serviceTime)

\* The pairs (numServers, workersPerServer) of a list of configurations.
PairsOf(list) ==
  {<<list[i].numServers, list[i].workersPerServer>> : i \in 1 .. Len(list)}

\* The largest of a non-empty set of numbers.
LargestOf(S) == CHOOSE m \in S : \A x \in S : FLe(x, m)

\* C15: scorer search space.  The configurations of ServerOptimizer are
\* exactly the pairs (numServers, workersPerServer) within 1 .. maxServers
\* and 1 .. maxWorkersPerServer whose per-server system is stable and whose
\* wait time is within maxWaitTimeMs.
C15_SearchSpace ==
  ret.fn = "ServerOptimizer"
  => PairsOf(ret.configurations) =
       {sw \in (1 .. ret.args.maxServers) \X (1 .. ret.args.maxWorkersPerServer) :
          /\ FLt(ScorerServerLoad(sw[1]), Int2Num(sw[2]))
          /\ FLe(FMul(averageWaitingTime(sw[2], ScorerServerLoad(sw[1]),
                                         ret.args.serviceTime), Thousand),
                 ret.args.maxWaitTimeMs)}

\* C16: scorer recommendation.  Without a surviving configuration the scored
\* list is empty and there is no optimum; otherwise the optimum is the head
\* of the scored list, no configuration has a higher score, and of the
\* configurations with that score it is the first in the order of
\* generation (numServers ascending, then workersPerServer ascending).
C16_Recommendation ==
  ret.fn = "ServerOptimizer"
  => /\ Len(ret.value) = Len(ret.configurations)
     /\ Len(ret.configurations) = 0 => ret.optimalConfig = <<>>
     /\ Len(ret.configurations) > 0 =>
          /\ ret.optimalConfig = <<ret.value[1]>>
          /\ \A i \in 1 .. Len(ret.value) :
               /\ FLe(ret.value[i].score, ret.value[1].score)
               /\ ret.value[i].score = ret.value[1].score
                    => \/ ret.value[1].numServers < ret.value[i].numServers
                       \/ /\ ret.value[1].numServers = ret.value[i].numServers
                          /\ ret.value[1].workersPerServer
                               <= ret.value[i].workersPerServer

\* C16 witness: several configurations survive, two of them share the
\* highest score and others score less.
C16_Witness ==
  /\ ret.fn = "ServerOptimizer"
  /\ Len(ret.configurations) >= 3
  /\ ret.optimalConfig = <<ret.value[1]>>
  /\ ret.value[2].score = ret.value[1].score
  /\ ret.value[1].workersPerServer < ret.value[2].workersPerServer
  /\ FLt(ret.value[Len(ret.value)].score, ret.value[1].score)

\* C17: scorer weighted objectives.  With maxCost the largest totalCost of
\* the surviving configurations, the score of each is
\* 0.7*(1 - cost/maxCost) + 0.3*(utilization/100) under the cost goal,
\* 0.6*(1 - waitTime/maxWaitTimeMs) + 0.4*(utilization/100) under the
\* performance goal and 0.4*costScore + 0.3*waitTimeScore +
\* 0.3*utilizationScore under the balanced goal, and lies in [0, 1].
C17_WeightedScores ==
  (ret.fn = "ServerOptimizer"
     /\ ret.args.optimizationGoal \in {"cost", "performance", "balanced"})
  => \A i \in 1 .. Len(ret.value) :
       LET c == ret.value[i]
           maxCost ==
             LargestOf({ret.value[k].totalCost : k \in 1 .. Len(ret.value)})
           costScore == FSub(One, FDiv(c.totalCost, maxCost))
           waitTimeScore == FSub(One, FDiv(c.waitTime, ret.args.maxWaitTimeMs))
           utilizationScore == FDiv(c.avgUtilization, Hundred)
       IN  /\ InUnit(c.score)
           /\ ret.args.optimizationGoal = "cost"
                => c.score = FAdd(FMul(Num(7, 10), costScore),
                                  FMul(Num(3, 10), utilizationScore))
           /\ ret.args.optimizationGoal = "performance"
                => c.score = FAdd(FMul(Num(6, 10), waitTimeScore),
                                  FMul(Num(4, 10), utilizationScore))
           /\ ret.args.optimizationGoal = "balanced"
                => c.score = FAdd(FAdd(FMul(Num(4, 10), costScore),
                                       FMul(Num(3, 10), waitTimeScore)),
                                  FMul(Num(3, 10), utilizationScore))

\* C17 witness: under the cost goal several configurations of different
\* cost survive, the cheapest of which scores above the dearest.
C17_Witness ==
  /\ ret.fn = "ServerOptimizer"
  /\ ret.args.optimizationGoal = "cost"
  /\ Len(ret.value) >= 3
  /\ FLt(ret.value[1].totalCost, ret.value[Len(ret.value)].totalCost)
  /\ FLt(Zero, ret.value[Len(ret.value)].score)
  /\ FLt(ret.value[1].score, One)

\* C18 as claimed: under the efficiency goal the score of a surviving
\* configuration is its utilization over the largest efficiency.
C18_UtilizationOverEfficiency ==
  (ret.fn = "ServerOptimizer" /\ ret.args.optimizationGoal = "efficiency")
  => \A i \in 1 .. Len(ret.value) :
       ret.value[i].score =
         FDiv(ret.value[i].avgUtilization,
              LargestOf({ret.value[k].efficiency : k \in 1 .. Len(ret.value)}))

\* C18 as amended: under the efficiency goal the score of a surviving
\* configuration is its efficiency over the largest efficiency among the
\* survivors, where efficiency = utilization / (cost / 100).
C18_Efficiency ==
  (ret.fn = "ServerOptimizer" /\ ret.args.optimizationGoal = "efficiency")
  => \A i \in 1 .. Len(ret.value) :
       LET c == ret.value[i]
       IN  /\ c.efficiency = FDiv(c.avgUtilization, FDiv(c.totalCost, Hundred))
           /\ c.score =
                FDiv(c.efficiency,
                     LargestOf({ret.value[k].efficiency : k \in 1 .. Len(ret.value)}))
           /\ InUnit(c.score)

\* C18 witness: under the efficiency goal several configurations survive
\* and the least efficient scores below 1.
C18_Witness ==
  /\ ret.fn = "ServerOptimizer"
  /\ ret.args.optimizationGoal = "efficiency"
  /\ Len(ret.value) >= 3
  /\ ret.value[1].score = One
  /\ FLt(ret.value[Len(ret.value)].score, One)

\* The tuple of a generateDataPoints result for N workers is its element
\* N - minWorkers + 1.
DataPointAt(N) == ret.value[N - ret.minWorkers + 1]

\* The result of generateDataPoints has one tuple for each worker count of
\* minWorkers .. maxWorkers, in ascending order, and none otherwise.
DataPointWorkers ==
  /\ ret.minWorkers <= ret.maxWorkers
       => Len(ret.value) = ret.maxWorkers - ret.minWorkers + 1
  /\ ret.minWorkers > ret.maxWorkers => ret.value = <<>>
  /\ \A N \in ret.minWorkers .. ret.maxWorkers : DataPointAt(N).workers = N

C20_TupleRanges ==
  ret.fn = "generateDataPoints"
  => \A i \in 1 .. Len(ret.value) :
       /\ InUnit(ret.value[i].probabilityDelay)
       /\ ret.value[i].waitTime =
            averageWaitingTime(ret.value[i].workers, TrafficIntensity, serviceTime)
       /\ FLe(Zero, ret.value[i].waitTime)
       /\ FLe(Zero, ret.value[i].queueLength)
       /\ FLe(Zero, ret.value[i].utilization)
       /\ FLe(ret.value[i].utilization, Hundred)

\* costPerWorker * numServers * workersPerServer + perServerOverhead * numServers
CostFormula(numServers, workersPerServer, costPerWorker, perServerOverhead) ==
  FAdd(FMul(FMul(costPerWorker, numServers), workersPerServer),
       FMul(perServerOverhead, numServers))

\* The totalCost of every record of the optimization chain follows the cost
\* formula with numServers = minServersRequired.
ChainCosts ==
  ret.fn = "optimizationChainData"
  => \A i \in 1 .. Len(ret.value) :
       ret.value[i].totalCost =
         CostFormula(ret.value[i].minServersRequired,
                     Int2Num(ret.value[i].workersPerServer),
                     ret.args.costPerWorker, ret.args.perServerOverhead)

\* C21 as claimed: the totalCost of every chain record and of the current
\* fleet configuration equals costPerWorker * numServers * workersPerServer
\* + perServerOverhead * numServers, and is linear in numServers for fixed
\* workersPerServer.
C21_CostModelAnyCount ==
  /\ ChainCosts
  /\ ret.fn = "totalCost"
       => /\ ret.value = CostFormula(Int2Num(ret.args.numServers),
                                     Int2Num(ret.args.workersPerServer),
                                     ret.args.costPerWorker,
                                     ret.args.perServerOverhead)
          /\ ret.value = FMul(Int2Num(ret.args.numServers),
                              totalCost(1, ret.args.workersPerServer,
                                        ret.args.costPerWorker,
                                        ret.args.perServerOverhead))

\* C21 as amended: the same for the chain records and for a current fleet
\* configuration with numServers > 0 and workersPerServer > 0; the
\* totalCost of a current configuration with numServers <= 0 or
\* workersPerServer <= 0 is 0.
C21_CostModel ==
  /\ ChainCosts
  /\ ret.fn = "totalCost"
       => /\ (ret.args.numServers > 0 /\ ret.args.workersPerServer > 0)
               => ret.value = CostFormula(Int2Num(ret.args.numServers),
                                          Int2Num(ret.args.workersPerServer),
                                          ret.args.costPerWorker,
                                          ret.args.perServerOverhead)
          /\ (ret.args.numServers <= 0 \/ ret.args.workersPerServer <= 0)
               => ret.value = Zero
          /\ ret.value = FMul(Int2Num(ret.args.numServers),
                              totalCost(1, ret.args.workersPerServer,
                                        ret.args.costPerWorker,
                                        ret.args.perServerOverhead))

\* C21 witness: three servers of two workers at 10 per worker and 10 of
\* overhead per server cost 90.
C21_Witness ==
  /\ ret.fn = "totalCost"
  /\ ret.args.numServers = 3
  /\ ret.args.workersPerServer = 2
  /\ ret.args.costPerWorker = Int2Num(10)
  /\ ret.args.perServerOverhead = Int2Num(10)
  /\ ret.value = Int2Num(90)

\* C22: erlangC large-N stability.  Where N! exceeds the largest double (N
\* beyond roughly 170) and 0 <= A < N, erlangC still returns a finite
\* probability in [0, 1], not NaN or Infinity, as it would if the terms
\* A^k/k! were computed incrementally.
C22_LargeNStable ==
  (/\ ret.fn = "erlangC"
   /\ ret.N >= 1
   /\ factorial(ret.N) = Infinity
   /\ FLe(Zero, TrafficIntensity)
   /\ FLt(TrafficIntensity, Int2Num(ret.N)))
  => /\ isFinite(ret.value)
     /\ InUnit(ret.value)

\* The target utilizations of the sweep: 95, 93, ..., 31.
TargetUtilizations == {95 - 2 * k : k \in 0 .. 32}

\* The total load of the chain's inputs.
ChainTotalLoad ==
  calculateTrafficIntensity(ret.args.totalArrivalRate, ret.args.serviceTime)

\* ceil(totalTrafficIntensity * 100 / (u * workers))
ChainRequiredServers(u, w) ==
  Math_ceilNum(FDiv(FMul(ChainTotalLoad, Hundred), Int2Num(u * w)))

\* The target u is not skipped for w workers and its configuration meets
\* both bounds of the SLA with finite metrics.
ChainTargetFeasible(u, w) ==
  LET s == ChainRequiredServers(u, w)
  IN  /\ isFinite(s) /\ 1 <= s.n /\ s.n <= 10000
      /\ isFinite(averageWaitingTime(w, ChainServerLoad(s.n), ret.args.serviceTime))
      /\ isFinite(erlangC(w, ChainServerLoad(s.n)))
      /\ ChainFeasible(s.n, w)

\* The highest of a non-empty set of targets.
HighestTarget(F) == CHOOSE u \in F : \A x \in F : x <= u

\* C23: optimization chain greedy sweep.  For each candidate workers value
\* the sweep visits the 33 targets 95, 93, ..., 31 in descending order with
\* requiredServers = ceil(totalTrafficIntensity*100 / (u*workers)); the
\* record of the candidate is the configuration of the first, that is the
\* highest, target that is not skipped and meets both SLA bounds, and a
\* candidate without such a target has no record.
C23_GreedySweep ==
  (ret.fn = "optimizationChainData" /\ isValid(ret.args))
  => /\ Cardinality(TargetUtilizations) = 33
     /\ \A w \in workersToTest(ret.args, ChainTotalLoad) :
          LET F == {u \in TargetUtilizations : ChainTargetFeasible(u, w)}
              recs == {i \in 1 .. Len(ret.value) : ret.value[i].workersPerServer = w}
          IN  IF F = {} THEN recs = {}
              ELSE /\ Cardinality(recs) = 1
                   /\ \A i \in recs :
                        LET s == ChainRequiredServers(HighestTarget(F), w)
                        IN  /\ ret.value[i].minServersRequired = s
                            /\ ret.value[i].maxFeasibleUtilization =
                                 calculateUtilization(w, ChainServerLoad(s.n))
                            /\ ret.value[i].waitTimeAtOptimal =
                                 FMul(averageWaitingTime(w, ChainServerLoad(s.n),
                                                         ret.args.serviceTime),
                                      Thousand)

\* C23 witness: a chain in which one candidate is recorded at a target below
\* 95 although the configuration of target 95 is stable (the SLA rejected
\* it), and another candidate has no feasible target and no record.
C23_Witness ==
  /\ ret.fn = "optimizationChainData"
  /\ isValid(ret.args)
  /\ \E i \in 1 .. Len(ret.value) :
       LET w == ret.value[i].workersPerServer
           s95 == ChainRequiredServers(95, w)
       IN  /\ FLt(s95, ret.value[i].minServersRequired)
           /\ FLt(ChainServerLoad(s95.n), Int2Num(w))
           /\ ~ChainFeasible(s95.n, w)
  /\ \E w \in workersToTest(ret.args, ChainTotalLoad) :
       \A i \in 1 .. Len(ret.value) : ret.value[i].workersPerServer # w

\* The elements of a sequence.
Range(seq) == {seq[i] : i \in 1 .. Len(seq)}

\* C24: optimization chain candidate set.  The worker counts tested always
\* include the current workersPerServer (even outside the range), the lower
\* end minWorkers and the upper end maxWorkers, whatever the sampling step;
\* they are processed in ascending order without repetition, so the chain
\* is sorted by workersPerServer with at most one record per value.
C24_CandidateSet ==
  /\ ret.fn = "sortedWorkers"
       => /\ ret.args.workersPerServer \in Range(ret.value)
          /\ chainMinWorkers(ret.args) \in Range(ret.value)
          /\ chainMaxWorkers(ret.args, ChainTotalLoad) \in Range(ret.value)
          /\ \A i \in 1 .. Len(ret.value) - 1 : ret.value[i] < ret.value[i + 1]
  /\ (ret.fn = "optimizationChainData" /\ isValid(ret.args))
       => /\ \A i \in 1 .. Len(ret.value) - 1 :
               ret.value[i].workersPerServer < ret.value[i + 1].workersPerServer
          /\ \A i \in 1 .. Len(ret.value) :
               ret.value[i].workersPerServer
                 \in {ret.args.workersPerServer}
                       \cup (chainMinWorkers(ret.args)
                               .. chainMaxWorkers(ret.args, ChainTotalLoad))

\* C24 witness: a range long enough to be sampled with a step above 1, whose
\* upper end is not on the sampling grid, and a current workersPerServer
\* above the range.
C24_Witness ==
  /\ ret.fn = "sortedWorkers"
  /\ chainStepSize(chainMaxWorkers(ret.args, ChainTotalLoad)
                     - chainMinWorkers(ret.args)) > 1
  /\ (chainMaxWorkers(ret.args, ChainTotalLoad) - chainMinWorkers(ret.args))
        % chainStepSize(chainMaxWorkers(ret.args, ChainTotalLoad)
                          - chainMinWorkers(ret.args)) # 0
  /\ ret.args.workersPerServer > chainMaxWorkers(ret.args, ChainTotalLoad)
  /\ ret.value[Len(ret.value)] = ret.args.workersPerServer

\* floor(log2(n)) for n >= 1.
RECURSIVE Log2(_)
Log2(n) == IF n <= 1 THEN 0 ELSE 1 + Log2(n \div 2)

\* The largest number of iterations of a search over [ceil(A), ceil(3A)]:
\* floor(log2(ceil(3A) - ceil(A) + 1)) + 1, and none for an empty range.
IterationBound ==
  LET width == FAdd(FSub(Math_ceilNum(FMul(frame.A, Int2Num(3))),
                         Math_ceilNum(frame.A)), One)
  IN  IF isFinite(width) /\ width.n >= 1 THEN Log2(width.n) + 1 ELSE 0

\* An iteration of the search leaves a strictly narrower interval.
IntervalShrinks ==
  FLt(FSub(frame'.maxN, frame'.minN), FSub(frame.maxN, frame.minN))

\* C25: search termination.  For every finite arrivalRate >= 0 and
\* serviceTime >= 0 and any maxWaitTime, each iteration of the binary search
\* of findMinWorkers strictly shrinks [minN, maxN] and the search takes at
\* most floor(log2(ceil(3A) - ceil(A) + 1)) + 1 iterations, so that the call
\* returns.
C25_Termination ==
  [][(Loop_findMinWorkers /\ FGe(arrivalRate, Zero) /\ FGe(serviceTime, Zero))
       => (IntervalShrinks /\ frame'.iterations <= IterationBound)]_vars

\* C26: findMinWorkers is monotone in the SLA.  For fixed arrivalRate and
\* serviceTime and two bounds t1 <= t2, findMinWorkers with t1 returns at
\* least what it returns with t2, also when no count of the search range
\* meets t1.
C26_MonotoneInBound ==
  (ret.fn = "findMinWorkers" /\ FGe(arrivalRate, Zero) /\ FGe(serviceTime, Zero))
  => \A t2 \in WaitTimes :
       FLe(frame.maxWaitTime, t2)
       => FGe(ret.value, findMinWorkers(arrivalRate, serviceTime, t2))

\* C27: the chain covers the current configuration.  Whenever the inputs are
\* valid and the current configuration (numServers, workersPerServer) is
\* stable and meets both bounds of the SLA, the analysis holds an optimum
\* for workersPerServer, from the chain or from the search for the current
\* worker count, and its minServersRequired is <= numServers.
C27_ChainCoversCurrent ==
  (/\ ret.fn = "currentAnalysis"
   /\ isValid(ret.args)
   /\ ChainFeasible(ret.args.numServers, ret.args.workersPerServer))
  => /\ ret.value # <<>>
     /\ ret.value[1].optimalForWorkers # <<>>
     /\ FLe(ret.value[1].optimalForWorkers[1].minServersRequired,
            Int2Num(ret.args.numServers))

\* The two ways the current configuration is not covered.
C27_NoOptimum ==
  ~(/\ ret.fn = "currentAnalysis"
    /\ ChainFeasible(ret.args.numServers, ret.args.workersPerServer)
    /\ ret.value # <<>>
    /\ ret.value[1].optimalForWorkers = <<>>)

C27_WorseOptimum ==
  ~(/\ ret.fn = "currentAnalysis"
    /\ ChainFeasible(ret.args.numServers, ret.args.workersPerServer)
    /\ ret.value # <<>>
    /\ ret.value[1].optimalForWorkers # <<>>
    /\ FLt(Int2Num(ret.args.numServers),
           ret.value[1].optimalForWorkers[1].minServersRequired))

\* The tab is mounted and no effect is pending.
TabSettled == tab.mounted /\ tab.pending = {}

\* max(1, ceil(totalTrafficIntensity * 100 / (targetUtilization *
\* workersPerServer))) on the tab's state.
TabTotalLoad == FMul(tab.totalArrivalRate, FDiv(tab.serviceTimeMs, Thousand))

TabRequiredServers ==
  Math_max(One,
           Math_ceilNum(FDiv(FMul(TabTotalLoad, Hundred),
                             FMul(tab.targetUtilization,
                                  Int2Num(tab.workersPerServer)))))

\* The utilization of one server of the tab's fleet, in percent, uncapped.
TabServerUtilization ==
  FMul(FDiv(FDiv(TabTotalLoad, tab.numServers), Int2Num(tab.workersPerServer)),
       Hundred)

C29_EffectsSettle ==
  tab.mounted
  => /\ tab.passes <= 2
     /\ tab.effectRuns <= 3
     /\ tab.passes = 2 => tab.pending = {}
     /\ Cardinality(tab.rewritten) <= 1

\* A loaded or edited state took two passes and three effect runs to settle,
\* one of which rewrote a value.
C29_Witness ==
  /\ TabSettled
  /\ tab.passes = 2
  /\ tab.effectRuns = 3
  /\ Cardinality(tab.rewritten) = 1
  /\ tab.savedConfigs # {}

\* The two systems of the simulation: the requests, the workers and whether
\* the queue is shared.
SimSystems ==
  {[requests |-> sim.separateRequests, workers |-> sim.separateWorkers,
    shared |-> FALSE],
   [requests |-> sim.sharedRequests, workers |-> sim.sharedWorkers,
    shared |-> TRUE]}

\* The worker k of system s holds the request r.
Holds(s, k, r) == s.workers[k].requestId = <<r.id>>

\* The request r of system s is held by some worker.
Held(s, r) == \E k \in DOMAIN s.workers : Holds(s, k, r)

\* No request id is held by two workers.
SimNoSharedRequest(s) ==
  \A k1 \in DOMAIN s.workers : \A k2 \in DOMAIN s.workers :
    (k1 # k2 /\ s.workers[k1].requestId # <<>>)
    => s.workers[k1].requestId # s.workers[k2].requestId

\* A busy worker's request exists in phase 'processing'.
SimBusyProcessing(s) ==
  \A k \in DOMAIN s.workers :
    s.workers[k].busy
    => \E i \in DOMAIN s.requests :
         Holds(s, k, s.requests[i]) /\ s.requests[i].phase = "processing"

\* A request of the separate queues is served by a worker of its queue.
SimOwnQueue(s) ==
  ~s.shared
  => \A k \in DOMAIN s.workers : \A i \in DOMAIN s.requests :
       Holds(s, k, s.requests[i])
       => s.workers[k].queueId = s.requests[i].targetQueue

\* Within one queue the requests are assigned in the order of queuedAt: a
\* request that waits was not queued before one that a worker holds.
SimInOrder(s) ==
  \A i \in DOMAIN s.requests : \A j \in DOMAIN s.requests :
    (/\ s.requests[i].phase = "in-queue"
     /\ ~Held(s, s.requests[i])
     /\ Held(s, s.requests[j])
     /\ s.shared \/ s.requests[i].targetQueue = s.requests[j].targetQueue)
    => s.requests[j].queuedAt <= s.requests[i].queuedAt

\* C30: queue-comparison simulation exclusivity.  In every frame, also when
\* an updater is invoked twice for it, each worker holds at most one
\* request, no request id is held by two workers, a busy worker's request
\* exists in phase 'processing', a request of the separate queues is served
\* by a worker of its targetQueue, and within one queue the requests are
\* assigned in the order of queuedAt.
C30_Exclusivity ==
  sim.mounted
  => \A s \in SimSystems :
       /\ \A k \in DOMAIN s.workers :
            /\ Len(s.workers[k].requestId) <= 1
            /\ s.workers[k].busy <=> s.workers[k].requestId # <<>>
       /\ SimNoSharedRequest(s)
       /\ SimBusyProcessing(s)
       /\ SimOwnQueue(s)
       /\ SimInOrder(s)

\* The clauses of C30, one by one.
C30_NoSharedRequest == sim.mounted => \A s \in SimSystems : SimNoSharedRequest(s)

C30_BusyProcessing == sim.mounted => \A s \in SimSystems : SimBusyProcessing(s)

C30_OwnQueue == sim.mounted => \A s \in SimSystems : SimOwnQueue(s)

C30_InOrder == sim.mounted => \A s \in SimSystems : SimInOrder(s)

====
